---- MODULE Spec2Model ----
(***************************************************************************)
(* The deferred-transaction contract of byzcoin (contracts package), the   *)
(* contract registry, and the ledger steps that drive them.                *)
(*                                                                         *)
(* Conventions of the model:                                               *)
(*  - a byte string is a sequence of naturals below 256;                   *)
(*  - a Go string that is fed to a hash is looked up in Bytes;             *)
(*  - sha256 is an ideal hash: a digest is the record [sha256 |-> pre]     *)
(*    of the byte string that was written into it;                         *)
(*  - a protobuf buffer is the record [pb |-> <type name>, v |-> value];   *)
(*    decoding as another type fails;                                      *)
(*  - a signature is the record [signer |-> id, msg |-> digest], and       *)
(*    Identity.Verify accepts exactly the signatures made by that          *)
(*    identity over that digest;                                           *)
(*  - a call result is [sc |-> state changes, err |-> error], err = NoErr  *)
(*    for a nil error, and err = Panic for a Go run-time panic.            *)
(***************************************************************************)
EXTENDS Integers, Sequences, FiniteSets, TLC

VARIABLES
    trie,       \* the ledger state: instance id -> [ContractID, Data, DarcID]
    index,      \* the current block index (ReadOnlyStateTrie.GetIndex)
    registry,   \* ContractRegistry.registry: contract id -> constructor
    pc,         \* position of the ledger in the handling of one instruction
    cur,        \* the instruction being handled, and how it is handled
    res,        \* what the contract returned for cur
    hist,       \* history of each live deferred instance (spawn-time values)
    locked,     \* ContractRegistry's sync.Mutex: TRUE while it is held
    thr,        \* the goroutines that call the registry: position and call
    regLog      \* the registrations, in the order of their writes to the map

vars == <<trie, index, registry, pc, cur, res, hist, locked, thr, regLog>>

(***************************************************************************)
(* Bounds of the model.                                                    *)
(***************************************************************************)
\* the ledger index runs from 0 to MaxIndex
MaxIndex == 1
\* the NumExecution argument of a Spawn ranges over 0..MaxNumExecution
MaxNumExecution == 2
\* the goroutines that call the registry concurrently
NumThreads == 2
\* the registrations made in one behaviour of the registry
MaxRegistrations == 2
\* the servers that a roster can list, and the longest roster
MaxNodes == 3
MaxRosterLen == 3
\* the largest cost of a read and the largest value of a coin, and the most
\* coins given with an instruction
MaxCost == 2
MaxCoins == 2

(***************************************************************************)
(* Errors.                                                                 *)
(***************************************************************************)
NoErr == "nil"
Panic == "panic: runtime error"
ErrNotAuthorized == "instruction verification failed"
ErrInstanceNotFound == "instance not found"
ErrMaxExecutions == "Maximum number of executions reached"
ErrExpired == "Current block index is too high"
ErrIdentityNil == "Identity args is nil"
ErrIdentityDecode == "Couldn't decode Identity"
ErrIndexNil == "Index args is nil"
ErrIndexRange == "Index is out of range"
ErrDuplicate == "Identity already stored"
ErrSignatureNil == "Signature args is nil"
ErrBadSignature == "Bad signature"
ErrNoRootFunction == "Couldn't get the root function"
ErrRootContract == "Couldn't get the root contract"
ErrVerifyFailed == "Verifying the instruction failed"
ErrExecFailed == "Error while executing an instruction"
ErrUnknownCommand == "Deferred contract can only addProof and execProposedTx"
ErrDecodeTx == "couldn't decode proposedTransaction"
ErrExpireParse == "couldn't convert expireBlockIndex"
ErrNumExecParse == "couldn't parse NumExecution"
ErrUnmarshal == "couldn't unmarshal instance data"

Ok(sc) == [sc |-> sc, err |-> NoErr]
Fail(e) == [sc |-> <<>>, err |-> e]

(***************************************************************************)
(* Bytes, integers and encodings.                                          *)
(***************************************************************************)
RECURSIVE Pow(_, _)
Pow(b, e) == IF e = 0 THEN 1 ELSE b * Pow(b, e - 1)

\* binary.LittleEndian.PutUint64 / PutUint32 on a fresh buffer of w bytes
RECURSIVE ByteOf(_, _)
ByteOf(n, i) == IF i = 1 THEN n % 256 ELSE ByteOf(n \div 256, i - 1)

LittleEndianPut(w, n) == [i \in 1..w |-> ByteOf(n, i)]

\* binary.LittleEndian.Uint32: the first four bytes; shorter buffers panic
LittleEndianUint32(b) ==
    b[1] + 256 * b[2] + 65536 * b[3] + 16777216 * b[4]

\* n - 1 for a uint64 n: 0 - 1 wraps to the largest uint64.  TLC's integers
\* have 32 bits, so the largest uint64, 2^64 - 1, is written as the largest
\* integer of TLC, 2^31 - 1: like 2^64 - 1 it is above every count of the model.
Uint64Max == Pow(2, 30) + (Pow(2, 30) - 1)
Uint64Dec(n) == IF n = 0 THEN Uint64Max ELSE n - 1

\* strconv.ParseUint(s, 10, 64) on the bytes of s: ok is FALSE on an empty
\* string and on a character that is no digit.  The strings of the model have
\* at most two digits, so the range error (a value above 2^64 - 1) cannot
\* happen and is not modelled.
RECURSIVE DecimalValue(_)
DecimalValue(s) ==
    IF s = <<>> THEN 0
    ELSE 10 * DecimalValue(SubSeq(s, 1, Len(s) - 1)) + (s[Len(s)] - 48)

ParseUint(s) ==
    IF \/ Len(s) = 0
       \/ \E i \in 1..Len(s) : s[i] < 48 \/ s[i] > 57
    THEN [ok |-> FALSE, val |-> 0]
    ELSE [ok |-> TRUE, val |-> DecimalValue(s)]

\* strconv.FormatUint(n, 10) as a client writes the Spawn arguments
RECURSIVE FormatUint(_)
FormatUint(n) ==
    IF n < 10 THEN <<48 + n>>
    ELSE Append(FormatUint(n \div 10), 48 + (n % 10))

\* []byte(s) for the strings that are written into a hash
Bytes(s) ==
    CASE s = "coin" -> <<99, 111, 105, 110>>
      [] s = "calypsoRead" -> <<99, 97, 108, 121, 112, 115, 111, 82, 101, 97, 100>>
      [] s = "deferred" -> <<100, 101, 102, 101, 114, 114, 101, 100>>
      [] s = "coins" -> <<99, 111, 105, 110, 115>>
      [] s = "type" -> <<116, 121, 112, 101>>
      [] OTHER -> <<>>

Sha256(pre) == [sha256 |-> pre]

\* protobuf.Encode / protobuf.Decode
Encode(type, v) == [pb |-> type, v |-> v]
DecodeOk(buf, type) == buf.pb = type

\* Arguments.Search: the value of the first argument of that name, or nil
Search(args, name) ==
    IF \E i \in 1..Len(args) : args[i].Name = name
    THEN LET i == CHOOSE k \in 1..Len(args) :
                      /\ args[k].Name = name
                      /\ \A j \in 1..(k - 1) : args[j].Name # name
         IN [isNil |-> FALSE, buf |-> args[i].Value]
    ELSE [isNil |-> TRUE, buf |-> <<>>]

\* darc.Identity.Verify(msg, sig)
IdentityVerify(id, msg, sig) == sig = [signer |-> id, msg |-> msg]

Sign(id, msg) == [signer |-> id, msg |-> msg]

(***************************************************************************)
(* Instructions and instance identifiers.                                  *)
(*                                                                         *)
(* An instance id is [b |-> bytes, d |-> <<>>] for an id given by its      *)
(* bytes, and [b |-> <<>>, d |-> <<instruction>>] for the id derived from  *)
(* an instruction (a digest, kept as what was hashed).                     *)
(*                                                                         *)
(* An instruction is a record with the fields InstanceID, Type ("Spawn",   *)
(* "Invoke" or "Delete"), ContractID, Command (Invoke only), Args,         *)
(* SignerIdentities and Signatures.                                        *)
(***************************************************************************)
SpawnType == "Spawn"
InvokeType == "Invoke"
DeleteType == "Delete"

RawID(bytes) == [b |-> bytes, d |-> <<>>]

\* Instruction.DeriveID(what); every call of the contracts passes ""
DeriveID(instr) == [b |-> <<>>, d |-> <<instr>>]

\* InstanceID.Slice(): the bytes of the id.  The bytes of a derived id are a
\* sha256 digest; they are written as the one value 256, which is no byte, so
\* that they differ from the bytes of every id that is given by its bytes.
Slice(iid) == IF iid.d = <<>> THEN iid.b ELSE <<256>>

Instruction(iid, type, contractID, command, args) ==
    [InstanceID |-> iid, Type |-> type, ContractID |-> contractID,
     Command |-> command, Args |-> args,
     SignerIdentities |-> <<>>, Signatures |-> <<>>]

Arg(name, value) == [Name |-> name, Value |-> value]

ContractDeferredID == "deferred"
ContractCoinID == "coin"
ContractReadID == "calypsoRead"

defaultNumExecution == 1

(***************************************************************************)
(* hashDeferred: the hash of an instruction without its signers, bound to  *)
(* instanceID.                                                             *)
(***************************************************************************)
RECURSIVE HashArgs(_)
HashArgs(args) ==
    IF args = <<>> THEN <<>>
    ELSE LET a == Head(args)
             nameBuf == Bytes(a.Name)
         IN LittleEndianPut(8, Len(nameBuf)) \o nameBuf
            \o LittleEndianPut(8, Len(a.Value)) \o a.Value
            \o HashArgs(Tail(args))

hashDeferredPreimage_WithSigners(instr, instanceID) ==
    Slice(instr.InstanceID)
    \o (CASE instr.Type = SpawnType ->
                <<0>> \o Bytes(instr.ContractID) \o HashArgs(instr.Args)
          [] instr.Type = InvokeType ->
                <<1>> \o Bytes(instr.ContractID) \o HashArgs(instr.Args)
          [] instr.Type = DeleteType ->
                <<2>> \o Bytes(instr.ContractID)
          [] OTHER -> HashArgs(<<>>))
    \o LittleEndianPut(4, Len(instr.Signatures))
    \o instanceID

hashDeferredPreimage(instr, instanceID) ==
    Slice(instr.InstanceID)
    \o (CASE instr.Type = SpawnType ->
                <<0>> \o Bytes(instr.ContractID) \o HashArgs(instr.Args)
          [] instr.Type = InvokeType ->
                <<1>> \o Bytes(instr.ContractID) \o HashArgs(instr.Args)
          [] instr.Type = DeleteType ->
                <<2>> \o Bytes(instr.ContractID)
          [] OTHER -> HashArgs(<<>>))
    \o instanceID

hashDeferred(instr, instanceID) == Sha256(hashDeferredPreimage(instr, instanceID))

(***************************************************************************)
(* deferredData and its constructor.                                       *)
(***************************************************************************)
deferredData(tx, expire, hashes, numExecution, execResult) ==
    [ProposedTransaction |-> tx,
     ExpireBlockIndex |-> expire,
     InstructionHashes |-> hashes,
     NumExecution |-> numExecution,
     ExecResult |-> execResult]

\* contractDeferredFromBytes: the contract holding the decoded data
contractDeferredFromBytes(in) ==
    IF DecodeOk(in, "deferredData")
    THEN [ok |-> TRUE, c |-> in.v]
    ELSE [ok |-> FALSE, c |-> in.v]

\* ReadOnlyStateTrie.GetValues: only the darc id is used by the contracts
GetValues(rst, iid) ==
    IF iid \in DOMAIN rst.trie
    THEN [ok |-> TRUE, darcID |-> rst.trie[iid].DarcID]
    ELSE [ok |-> FALSE, darcID |-> RawID(<<>>)]

NewStateChange(action, iid, contractID, value, darcID) ==
    [Action |-> action, InstanceID |-> iid, ContractID |-> contractID,
     Value |-> value, DarcID |-> darcID]

\* the ledger applies the state changes of an accepted instruction in order
ApplyOne(t, sc) ==
    IF sc.Action = "Remove"
    THEN [iid \in DOMAIN t \ {sc.InstanceID} |-> t[iid]]
    ELSE [iid \in DOMAIN t \cup {sc.InstanceID} |->
            IF iid = sc.InstanceID
            THEN [ContractID |-> sc.ContractID, Data |-> sc.Value,
                  DarcID |-> sc.DarcID]
            ELSE t[iid]]

RECURSIVE Apply(_, _)
Apply(t, scs) ==
    IF scs = <<>> THEN t ELSE Apply(ApplyOne(t, Head(scs)), Tail(scs))

(***************************************************************************)
(* The contract registry.  A constructor is named by a string.             *)
(***************************************************************************)
\* ContractRegistry.RegisterContract, under the registry's lock
RegistryPut_KeepsFirst(reg, contractName, contractFn) ==
    [n \in DOMAIN reg \cup {contractName} |->
        IF n \in DOMAIN reg THEN reg[n] ELSE contractFn]

RegistryPut(reg, contractName, contractFn) ==
    [n \in DOMAIN reg \cup {contractName} |->
        IF n = contractName THEN contractFn ELSE reg[n]]

\* ContractRegistry.GetContractConstructor, under the registry's lock
GetContractConstructor(reg, contractName) ==
    IF contractName \in DOMAIN reg
    THEN [fn |-> reg[contractName], exist |-> TRUE]
    ELSE [fn |-> "", exist |-> FALSE]

\* contractReadFromBytes: calypso read instances are never instantiated
contractReadFromBytes(in) == [ok |-> FALSE, kind |-> ContractReadID]

\* the constructor of the coin contract (not part of the deferred contract)
contractCoinFromBytes(in) == [ok |-> TRUE, kind |-> ContractCoinID]

\* fn(rootInstructionBuff): calling a registered constructor
Construct(fn, in) ==
    CASE fn = "contractReadFromBytes" -> contractReadFromBytes(in)
      [] fn = "contractCoinFromBytes" -> contractCoinFromBytes(in)
      [] OTHER -> [ok |-> FALSE, kind |-> ""]

(***************************************************************************)
(* The target contract of the proposed instructions: a coin contract whose *)
(* instances are governed by a darc that asks for the signature of the     *)
(* identity Owner.                                                         *)
(***************************************************************************)
Owner == "A"
Identities == {"A", "B"}

\* Contract.VerifyDeferredInstruction(rst, instr, hash): the instance exists,
\* every signature is one of its signer over hash, and the darc's rule holds
VerifyDeferredInstruction(kind, rst, instr, hash) ==
    IF instr.InstanceID \notin DOMAIN rst.trie THEN ErrInstanceNotFound
    ELSE IF Len(instr.SignerIdentities) # Len(instr.Signatures)
         THEN ErrNotAuthorized
    ELSE IF \E k \in 1..Len(instr.Signatures) :
                ~IdentityVerify(instr.SignerIdentities[k], hash, instr.Signatures[k])
         THEN ErrNotAuthorized
    ELSE IF \A k \in 1..Len(instr.SignerIdentities) :
                instr.SignerIdentities[k] # Owner
         THEN ErrNotAuthorized
    ELSE NoErr

\* Contract.Spawn / Invoke / Delete of the coin contract
TargetSpawn(kind, rst, instr) ==
    LET v == GetValues(rst, instr.InstanceID)
    IN IF ~v.ok THEN Fail(ErrInstanceNotFound)
       ELSE Ok(<<NewStateChange("Create", DeriveID(instr), instr.ContractID,
                                Encode(ContractCoinID, instr.Args), v.darcID)>>)

TargetInvoke(kind, rst, instr) ==
    LET v == GetValues(rst, instr.InstanceID)
    IN IF ~v.ok THEN Fail(ErrInstanceNotFound)
       ELSE IF instr.Command # "transfer" THEN Fail("unknown command")
       ELSE Ok(<<NewStateChange("Update", instr.InstanceID, instr.ContractID,
                                Encode(ContractCoinID, instr.Args), v.darcID)>>)

TargetDelete(kind, rst, instr) ==
    LET v == GetValues(rst, instr.InstanceID)
    IN IF ~v.ok THEN Fail(ErrInstanceNotFound)
       ELSE Ok(<<NewStateChange("Remove", instr.InstanceID, instr.ContractID,
                                Encode("nil", <<>>), v.darcID)>>)

(***************************************************************************)
(* contractDeferred.Spawn                                                  *)
(***************************************************************************)
\* the checks of the arguments, in the order of the code: the error, or NoErr
SpawnArgsError_NoNumExecutionCheck(inst) ==
    LET txBuf == Search(inst.Args, "proposedTransaction")
        expBuf == Search(inst.Args, "expireBlockIndex")
    IN IF txBuf.isNil \/ ~DecodeOk(txBuf.buf, "ClientTransaction")
       THEN ErrDecodeTx
       ELSE IF ~ParseUint(expBuf.buf).ok THEN ErrExpireParse
       ELSE NoErr

SpawnArgsError(inst) ==
    LET txBuf == Search(inst.Args, "proposedTransaction")
        expBuf == Search(inst.Args, "expireBlockIndex")
        numExecutionBuff == Search(inst.Args, "NumExecution")
    IN IF txBuf.isNil \/ ~DecodeOk(txBuf.buf, "ClientTransaction")
       THEN ErrDecodeTx
       ELSE IF ~ParseUint(expBuf.buf).ok THEN ErrExpireParse
       ELSE IF Len(numExecutionBuff.buf) > 0 /\ ~ParseUint(numExecutionBuff.buf).ok
            THEN ErrNumExecParse
       ELSE NoErr

\* the data that Spawn stores, from arguments that passed the checks
SpawnData_NoDefault(inst) ==
    LET proposedTransaction == Search(inst.Args, "proposedTransaction").buf.v
        expireBlockIndex == ParseUint(Search(inst.Args, "expireBlockIndex").buf).val
        numExecutionBuff == Search(inst.Args, "NumExecution")
        NumExecution == ParseUint(numExecutionBuff.buf).val
        hash == [i \in 1..Len(proposedTransaction.Instructions) |->
                    hashDeferred(proposedTransaction.Instructions[i],
                                 Slice(inst.InstanceID))]
    IN deferredData(proposedTransaction, expireBlockIndex, hash, NumExecution, <<>>)

SpawnData(inst) ==
    LET proposedTransaction == Search(inst.Args, "proposedTransaction").buf.v
        expireBlockIndex == ParseUint(Search(inst.Args, "expireBlockIndex").buf).val
        numExecutionBuff == Search(inst.Args, "NumExecution")
        NumExecution == IF Len(numExecutionBuff.buf) > 0
                        THEN ParseUint(numExecutionBuff.buf).val
                        ELSE defaultNumExecution
        hash == [i \in 1..Len(proposedTransaction.Instructions) |->
                    hashDeferred(proposedTransaction.Instructions[i],
                                 Slice(inst.InstanceID))]
    IN deferredData(proposedTransaction, expireBlockIndex, hash, NumExecution, <<>>)

Spawn(rst, inst) ==
    LET v == GetValues(rst, inst.InstanceID)
        argsErr == SpawnArgsError(inst)
    IN IF ~v.ok THEN Fail(ErrInstanceNotFound)
       ELSE IF argsErr # NoErr THEN Fail(argsErr)
       ELSE Ok(<<NewStateChange("Create", DeriveID(inst), ContractDeferredID,
                                Encode("deferredData", SpawnData(inst)),
                                v.darcID)>>)

(***************************************************************************)
(* contractDeferred.Invoke; c is the contract's deferredData.              *)
(***************************************************************************)
\* "addProof", the checks of its arguments: the error, or NoErr
AddProofArgsError_NoSignatureCheck(c, inst) ==
    LET indexBuf == Search(inst.Args, "index")
        identityBuf == Search(inst.Args, "identity")
    IN IF indexBuf.isNil THEN ErrIndexNil
       ELSE IF Len(indexBuf.buf) < 4 THEN Panic
       ELSE IF LittleEndianUint32(indexBuf.buf)
                  >= Len(c.ProposedTransaction.Instructions)
            THEN ErrIndexRange
       ELSE IF identityBuf.isNil THEN ErrIdentityNil
       ELSE IF ~DecodeOk(identityBuf.buf, "Identity") THEN ErrIdentityDecode
       ELSE NoErr

AddProofArgsError(c, inst) ==
    LET indexBuf == Search(inst.Args, "index")
        identityBuf == Search(inst.Args, "identity")
        signature == Search(inst.Args, "signature")
    IN IF indexBuf.isNil THEN ErrIndexNil
       ELSE IF Len(indexBuf.buf) < 4 THEN Panic
       ELSE IF LittleEndianUint32(indexBuf.buf)
                  >= Len(c.ProposedTransaction.Instructions)
            THEN ErrIndexRange
       ELSE IF identityBuf.isNil THEN ErrIdentityNil
       ELSE IF ~DecodeOk(identityBuf.buf, "Identity") THEN ErrIdentityDecode
       ELSE IF signature.isNil THEN ErrSignatureNil
       ELSE NoErr

\* "addProof", the update of the contract's data: identity and signature are
\* appended to the signers of the proposed instruction i (counted from 1)
AppendProof_Prepends(c, i, identity, signature) ==
    [c EXCEPT !.ProposedTransaction.Instructions[i] =
        [@ EXCEPT !.SignerIdentities = <<identity>> \o @,
                  !.Signatures = <<signature>> \o @]]

AppendProof_RehashesInstruction(c, i, identity, signature) ==
    [c EXCEPT !.ProposedTransaction.Instructions[i] =
                  [@ EXCEPT !.SignerIdentities = Append(@, identity),
                            !.Signatures = Append(@, signature)],
              !.InstructionHashes[i] = Sha256(@.sha256 \o <<1>>)]

AppendProof(c, i, identity, signature) ==
    [c EXCEPT !.ProposedTransaction.Instructions[i] =
        [@ EXCEPT !.SignerIdentities = Append(@, identity),
                  !.Signatures = Append(@, signature)]]

\* the body of "addProof"
InvokeAddProof(c, rst, inst, darcID) ==
    LET argsErr == AddProofArgsError(c, inst)
    IN IF argsErr # NoErr THEN Fail(argsErr)
       ELSE LET data == AppendProof(
                            c,
                            LittleEndianUint32(Search(inst.Args, "index").buf) + 1,
                            Search(inst.Args, "identity").buf.v,
                            Search(inst.Args, "signature").buf)
            IN Ok(<<NewStateChange("Update", inst.InstanceID, ContractDeferredID,
                                   Encode("deferredData", data), darcID)>>)

ExecInstruction_ResolvesDeferred(c, reg, rst, i) ==
    LET proposedInstr == c.ProposedTransaction.Instructions[i]
        contractID == ContractDeferredID
        found == GetContractConstructor(reg, contractID)
        contract == Construct(found.fn, Encode("Instruction", proposedInstr))
        verr == VerifyDeferredInstruction(contract.kind, rst, proposedInstr,
                                          c.InstructionHashes[i])
        out == CASE proposedInstr.Type = SpawnType ->
                        TargetSpawn(contract.kind, rst, proposedInstr)
                 [] proposedInstr.Type = InvokeType ->
                        TargetInvoke(contract.kind, rst, proposedInstr)
                 [] proposedInstr.Type = DeleteType ->
                        TargetDelete(contract.kind, rst, proposedInstr)
                 [] OTHER -> Ok(<<>>)
    IN IF ~found.exist THEN Fail(ErrNoRootFunction)
       ELSE IF ~contract.ok THEN Fail(ErrRootContract)
       ELSE IF verr # NoErr THEN Fail(ErrVerifyFailed)
       ELSE IF out.err # NoErr THEN Fail(ErrExecFailed)
       ELSE out

\* one turn of the loop of "execProposedTx" over the proposed instruction i
ExecInstruction(c, reg, rst, i) ==
    LET proposedInstr == c.ProposedTransaction.Instructions[i]
        contractID == proposedInstr.ContractID
        found == GetContractConstructor(reg, contractID)
        contract == Construct(found.fn, Encode("Instruction", proposedInstr))
        verr == VerifyDeferredInstruction(contract.kind, rst, proposedInstr,
                                          c.InstructionHashes[i])
        out == CASE proposedInstr.Type = SpawnType ->
                        TargetSpawn(contract.kind, rst, proposedInstr)
                 [] proposedInstr.Type = InvokeType ->
                        TargetInvoke(contract.kind, rst, proposedInstr)
                 [] proposedInstr.Type = DeleteType ->
                        TargetDelete(contract.kind, rst, proposedInstr)
                 [] OTHER -> Ok(<<>>)
    IN IF ~found.exist THEN Fail(ErrNoRootFunction)
       ELSE IF ~contract.ok THEN Fail(ErrRootContract)
       ELSE IF verr # NoErr THEN Fail(ErrVerifyFailed)
       ELSE IF out.err # NoErr THEN Fail(ErrExecFailed)
       ELSE out

\* the calls made by one turn of the loop, in the order of the code, each
\* with the error it returns; the turn ends at the first call that fails
ExecCalls_DispatchesFirst(c, reg, rst, i) ==
    LET proposedInstr == c.ProposedTransaction.Instructions[i]
        found == GetContractConstructor(reg, proposedInstr.ContractID)
        contract == Construct(found.fn, Encode("Instruction", proposedInstr))
        out == CASE proposedInstr.Type = SpawnType ->
                        TargetSpawn(contract.kind, rst, proposedInstr)
                 [] proposedInstr.Type = InvokeType ->
                        TargetInvoke(contract.kind, rst, proposedInstr)
                 [] proposedInstr.Type = DeleteType ->
                        TargetDelete(contract.kind, rst, proposedInstr)
                 [] OTHER -> Ok(<<>>)
        lookup == [call |-> "GetContractConstructor", i |-> i,
                   contractID |-> proposedInstr.ContractID,
                   err |-> IF found.exist THEN NoErr ELSE ErrNoRootFunction]
        construct == [call |-> "fn", i |-> i,
                      err |-> IF contract.ok THEN NoErr ELSE ErrRootContract]
        verify == [call |-> "VerifyDeferredInstruction", i |-> i,
                   instr |-> proposedInstr, hash |-> c.InstructionHashes[i],
                   err |-> VerifyDeferredInstruction(contract.kind, rst,
                                                     proposedInstr,
                                                     c.InstructionHashes[i])]
        dispatch == [call |-> proposedInstr.Type, i |-> i,
                     instr |-> proposedInstr, err |-> out.err]
    IN IF ~found.exist THEN <<lookup>>
       ELSE IF ~contract.ok THEN <<lookup, construct>>
       ELSE IF out.err # NoErr THEN <<lookup, construct, dispatch>>
       ELSE <<lookup, construct, dispatch, verify>>

ExecCalls(c, reg, rst, i) ==
    LET proposedInstr == c.ProposedTransaction.Instructions[i]
        found == GetContractConstructor(reg, proposedInstr.ContractID)
        contract == Construct(found.fn, Encode("Instruction", proposedInstr))
        out == CASE proposedInstr.Type = SpawnType ->
                        TargetSpawn(contract.kind, rst, proposedInstr)
                 [] proposedInstr.Type = InvokeType ->
                        TargetInvoke(contract.kind, rst, proposedInstr)
                 [] proposedInstr.Type = DeleteType ->
                        TargetDelete(contract.kind, rst, proposedInstr)
                 [] OTHER -> Ok(<<>>)
        lookup == [call |-> "GetContractConstructor", i |-> i,
                   contractID |-> proposedInstr.ContractID,
                   err |-> IF found.exist THEN NoErr ELSE ErrNoRootFunction]
        construct == [call |-> "fn", i |-> i,
                      err |-> IF contract.ok THEN NoErr ELSE ErrRootContract]
        verify == [call |-> "VerifyDeferredInstruction", i |-> i,
                   instr |-> proposedInstr, hash |-> c.InstructionHashes[i],
                   err |-> VerifyDeferredInstruction(contract.kind, rst,
                                                     proposedInstr,
                                                     c.InstructionHashes[i])]
        dispatch == [call |-> proposedInstr.Type, i |-> i,
                     instr |-> proposedInstr, err |-> out.err]
    IN IF ~found.exist THEN <<lookup>>
       ELSE IF ~contract.ok THEN <<lookup, construct>>
       ELSE IF verify.err # NoErr THEN <<lookup, construct, verify>>
       ELSE <<lookup, construct, verify, dispatch>>

\* the calls made by the loop from the proposed instruction i on
RECURSIVE ExecLoopCalls(_, _, _, _)
ExecLoopCalls(c, reg, rst, i) ==
    IF i > Len(c.ProposedTransaction.Instructions) THEN <<>>
    ELSE LET calls == ExecCalls(c, reg, rst, i)
         IN IF calls[Len(calls)].err # NoErr THEN calls
            ELSE calls \o ExecLoopCalls(c, reg, rst, i + 1)

\* the loop: sc holds the state changes of the instructions before i
RECURSIVE ExecLoop_KeepsEffects(_, _, _, _, _)
ExecLoop_KeepsEffects(c, reg, rst, i, sc) ==
    IF i > Len(c.ProposedTransaction.Instructions) THEN Ok(sc)
    ELSE LET r == ExecInstruction(c, reg, rst, i)
         IN IF r.err # NoErr THEN [sc |-> sc, err |-> r.err]
            ELSE ExecLoop_KeepsEffects(c, reg, rst, i + 1, sc \o r.sc)

RECURSIVE ExecLoop_PrependsEffects(_, _, _, _, _)
ExecLoop_PrependsEffects(c, reg, rst, i, sc) ==
    IF i > Len(c.ProposedTransaction.Instructions) THEN Ok(sc)
    ELSE LET r == ExecInstruction(c, reg, rst, i)
         IN IF r.err # NoErr THEN Fail(r.err)
            ELSE ExecLoop_PrependsEffects(c, reg, rst, i + 1, r.sc \o sc)

RECURSIVE ExecLoop_SeesEarlierEffects(_, _, _, _, _)
ExecLoop_SeesEarlierEffects(c, reg, rst, i, sc) ==
    IF i > Len(c.ProposedTransaction.Instructions) THEN Ok(sc)
    ELSE LET r == ExecInstruction(c, reg, rst, i)
         IN IF r.err # NoErr THEN Fail(r.err)
            ELSE ExecLoop_SeesEarlierEffects(
                    c, reg, [rst EXCEPT !.trie = Apply(rst.trie, r.sc)],
                    i + 1, sc \o r.sc)

RECURSIVE ExecLoop_NeedsInstruction(_, _, _, _, _)
ExecLoop_NeedsInstruction(c, reg, rst, i, sc) ==
    IF Len(c.ProposedTransaction.Instructions) = 0 THEN Fail(ErrExecFailed)
    ELSE IF i > Len(c.ProposedTransaction.Instructions) THEN Ok(sc)
    ELSE LET r == ExecInstruction(c, reg, rst, i)
         IN IF r.err # NoErr THEN Fail(r.err)
            ELSE ExecLoop_NeedsInstruction(c, reg, rst, i + 1, sc \o r.sc)

RECURSIVE ExecLoop(_, _, _, _, _)
ExecLoop(c, reg, rst, i, sc) ==
    IF i > Len(c.ProposedTransaction.Instructions) THEN Ok(sc)
    ELSE LET r == ExecInstruction(c, reg, rst, i)
         IN IF r.err # NoErr THEN Fail(r.err)
            ELSE ExecLoop(c, reg, rst, i + 1, sc \o r.sc)

\* "execProposedTx", the update of the contract's data after the loop
ExecUpdate_AppendsResult(c, instructionIDs) ==
    [c EXCEPT !.ExecResult = @ \o instructionIDs,
              !.NumExecution = Uint64Dec(c.NumExecution)]

ExecUpdate_ClearsProofs(c, instructionIDs) ==
    [c EXCEPT !.ExecResult = instructionIDs,
              !.NumExecution = Uint64Dec(c.NumExecution),
              !.ProposedTransaction.Instructions =
                  [i \in 1..Len(c.ProposedTransaction.Instructions) |->
                      [c.ProposedTransaction.Instructions[i] EXCEPT
                          !.SignerIdentities = <<>>, !.Signatures = <<>>]]]

ExecUpdate(c, instructionIDs) ==
    [c EXCEPT !.ExecResult = instructionIDs,
              !.NumExecution = Uint64Dec(c.NumExecution)]

\* the body of "execProposedTx"
InvokeExecProposedTx(c, reg, rst, inst, darcID) ==
    LET instructionIDs == [i \in 1..Len(c.ProposedTransaction.Instructions) |->
                              DeriveID(c.ProposedTransaction.Instructions[i])]
        loop == ExecLoop(c, reg, rst, 1, <<>>)
        data == ExecUpdate(c, instructionIDs)
    IN IF loop.err # NoErr THEN loop
       ELSE Ok(Append(loop.sc,
                      NewStateChange("Update", inst.InstanceID, ContractDeferredID,
                                     Encode("deferredData", data), darcID)))

Invoke_DefaultExecutes(c, reg, rst, inst) ==
    LET v == GetValues(rst, inst.InstanceID)
    IN IF ~v.ok THEN Fail(ErrInstanceNotFound)
       ELSE CASE inst.Command = "addProof" ->
                    InvokeAddProof(c, rst, inst, v.darcID)
              [] OTHER -> InvokeExecProposedTx(c, reg, rst, inst, v.darcID)

Invoke(c, reg, rst, inst) ==
    LET v == GetValues(rst, inst.InstanceID)
    IN IF ~v.ok THEN Fail(ErrInstanceNotFound)
       ELSE CASE inst.Command = "addProof" ->
                    InvokeAddProof(c, rst, inst, v.darcID)
              [] inst.Command = "execProposedTx" ->
                    InvokeExecProposedTx(c, reg, rst, inst, v.darcID)
              [] OTHER -> Fail(ErrUnknownCommand)

(***************************************************************************)
(* contractDeferred.Delete                                                 *)
(***************************************************************************)
Delete(c, rst, inst) ==
    LET v == GetValues(rst, inst.InstanceID)
    IN IF ~v.ok THEN Fail(ErrInstanceNotFound)
       ELSE Ok(<<NewStateChange("Remove", inst.InstanceID, ContractDeferredID,
                                Encode("nil", <<>>), v.darcID)>>)

(***************************************************************************)
(* contractDeferred.VerifyInstruction; basic is the error returned by      *)
(* BasicContract.VerifyInstruction (the darc check of the instruction).    *)
(***************************************************************************)
\* "addProof", the two checks of the proof for the proposed instruction i
\* (counted from 1): the identity is not stored yet, the signature is valid
ProofError_NoDuplicateCheck(c, i, identity, signature) ==
    IF signature.isNil THEN ErrSignatureNil
    ELSE IF ~IdentityVerify(identity, c.InstructionHashes[i], signature.buf)
         THEN ErrBadSignature
    ELSE NoErr

ProofError_NoSignatureCheck(c, i, identity, signature) ==
    LET stored == c.ProposedTransaction.Instructions[i].SignerIdentities
    IN IF \E k \in 1..Len(stored) : identity = stored[k] THEN ErrDuplicate
       ELSE IF signature.isNil THEN ErrSignatureNil
       ELSE NoErr

ProofError(c, i, identity, signature) ==
    LET stored == c.ProposedTransaction.Instructions[i].SignerIdentities
    IN IF \E k \in 1..Len(stored) : identity = stored[k] THEN ErrDuplicate
       ELSE IF signature.isNil THEN ErrSignatureNil
       ELSE IF ~IdentityVerify(identity, c.InstructionHashes[i], signature.buf)
            THEN ErrBadSignature
       ELSE NoErr

VerifyAddProof(c, instr) ==
    LET identityBuf == Search(instr.Args, "identity")
        indexBuf == Search(instr.Args, "index")
    IN IF identityBuf.isNil THEN ErrIdentityNil
       ELSE IF ~DecodeOk(identityBuf.buf, "Identity") THEN ErrIdentityDecode
       ELSE IF indexBuf.isNil THEN ErrIndexNil
       ELSE IF Len(indexBuf.buf) < 4 THEN Panic
       ELSE IF LittleEndianUint32(indexBuf.buf)
                  >= Len(c.ProposedTransaction.Instructions)
            THEN Panic
       ELSE ProofError(c, LittleEndianUint32(indexBuf.buf) + 1,
                       identityBuf.buf.v, Search(instr.Args, "signature"))

\* the two checks of every Invoke: the error, or NoErr
InvokeGuardError_NoCeiling(c, rst) ==
    IF rst.index > c.ExpireBlockIndex THEN ErrExpired ELSE NoErr

InvokeGuardError_NoExpiry(c, rst) ==
    IF c.NumExecution < 1 THEN ErrMaxExecutions ELSE NoErr

InvokeGuardError_ExpiresAtBoundary(c, rst) ==
    IF c.NumExecution < 1 THEN ErrMaxExecutions
    ELSE IF rst.index >= c.ExpireBlockIndex THEN ErrExpired
    ELSE NoErr

InvokeGuardError(c, rst) ==
    IF c.NumExecution < 1 THEN ErrMaxExecutions
    ELSE IF rst.index > c.ExpireBlockIndex THEN ErrExpired
    ELSE NoErr

VerifyInstruction_GuardsAddProofOnly(c, rst, instr, basic) ==
    IF basic # NoErr THEN basic
    ELSE IF instr.Type = InvokeType /\ instr.Command = "addProof"
            /\ InvokeGuardError(c, rst) # NoErr
         THEN InvokeGuardError(c, rst)
    ELSE IF instr.Type = InvokeType /\ instr.Command = "addProof"
         THEN VerifyAddProof(c, instr)
    ELSE NoErr

VerifyInstruction_GuardsEveryType(c, rst, instr, basic) ==
    IF basic # NoErr THEN basic
    ELSE IF instr.Type # SpawnType /\ InvokeGuardError(c, rst) # NoErr
         THEN InvokeGuardError(c, rst)
    ELSE IF instr.Type = InvokeType /\ instr.Command = "addProof"
         THEN VerifyAddProof(c, instr)
    ELSE NoErr

VerifyInstruction_ProofThreshold(c, rst, instr, basic) ==
    IF basic # NoErr THEN basic
    ELSE IF instr.Type = InvokeType /\ InvokeGuardError(c, rst) # NoErr
         THEN InvokeGuardError(c, rst)
    ELSE IF instr.Type = InvokeType /\ instr.Command = "addProof"
         THEN VerifyAddProof(c, instr)
    ELSE IF instr.Type = InvokeType /\ instr.Command = "execProposedTx"
            /\ \E i \in 1..Len(c.ProposedTransaction.Instructions) :
                  Len(c.ProposedTransaction.Instructions[i].SignerIdentities) < 2
         THEN ErrNotAuthorized
    ELSE NoErr

VerifyInstruction(c, rst, instr, basic) ==
    IF basic # NoErr THEN basic
    ELSE IF instr.Type = InvokeType /\ InvokeGuardError(c, rst) # NoErr
         THEN InvokeGuardError(c, rst)
    ELSE IF instr.Type = InvokeType /\ instr.Command = "addProof"
         THEN VerifyAddProof(c, instr)
    ELSE NoErr

(***************************************************************************)
(* The ledger: the instances of the initial state, the instructions that   *)
(* clients submit, and the application of state changes.                   *)
(***************************************************************************)
DarcIID == RawID(<<1>>)
CoinIID == RawID(<<2>>)

\* the proposed instructions
PTransfer == Instruction(CoinIID, InvokeType, ContractCoinID, "transfer",
                         <<Arg("coins", <<5>>)>>)
PMint == Instruction(CoinIID, InvokeType, ContractCoinID, "mint", <<>>)
PRead == Instruction(CoinIID, SpawnType, ContractReadID, "", <<>>)
PSpawn == Instruction(DarcIID, SpawnType, ContractCoinID, "",
                      <<Arg("type", <<1>>)>>)
PDelete == Instruction(CoinIID, DeleteType, ContractCoinID, "", <<>>)

\* a transfer that names a signer before it is proposed, without a signature
PUnsigned == [PTransfer EXCEPT !.SignerIdentities = <<"B">>]

\* a transfer proposed with the owner's signature over its hash: the hash is
\* bound to the instance the Spawn is sent to, which the owner knows
PSigned ==
    [PTransfer EXCEPT
        !.SignerIdentities = <<Owner>>,
        !.Signatures = <<Sign(Owner, hashDeferred(PTransfer, Slice(DarcIID)))>>]

\* the proposed transactions
ProposedTxs ==
    { <<>>, <<PTransfer>>, <<PTransfer, PMint>>, <<PTransfer, PRead>>,
      <<PSpawn, PDelete>>, <<PUnsigned>>, <<PSigned>>,
      <<PDelete, PTransfer>> }

ClientTransaction(instrs) == [Instructions |-> instrs]

\* the Spawn instructions of clients: well-formed ones, and ones with one
\* argument missing or malformed
ExpireChoices == {MaxIndex - 1}
NumExecutionChoices == {0, MaxNumExecution}

SpawnInst(args) ==
    Instruction(DarcIID, SpawnType, ContractDeferredID, "", args)

TxArg(tx) == Arg("proposedTransaction",
                 Encode("ClientTransaction", ClientTransaction(tx)))
ExpireArg(e) == Arg("expireBlockIndex", FormatUint(e))
NumArg(n) == Arg("NumExecution", FormatUint(n))

SpawnInsts ==
    LET tx0 == <<PTransfer>>
        e0 == MaxIndex - 1
    IN  { SpawnInst(<<TxArg(tx), ExpireArg(e)>>) :
            tx \in ProposedTxs, e \in ExpireChoices }
        \cup { SpawnInst(<<TxArg(tx), ExpireArg(e), NumArg(n)>>) :
                 tx \in ProposedTxs, e \in ExpireChoices,
                 n \in NumExecutionChoices }
        \cup { SpawnInst(<<Arg("proposedTransaction", Encode("garbage", <<>>)),
                           ExpireArg(e0)>>),
               SpawnInst(<<TxArg(tx0)>>),
               SpawnInst(<<TxArg(tx0), Arg("expireBlockIndex", <<120>>)>>),
               SpawnInst(<<TxArg(tx0), ExpireArg(e0), Arg("NumExecution", <<>>)>>),
               SpawnInst(<<TxArg(tx0), ExpireArg(e0),
                           Arg("NumExecution", <<45, 49>>)>>) }

\* the Invoke and Delete instructions of clients on the deferred instance iid
\* whose data is c
AlienDigest == Sha256(<<>>)

IndexArg(i) == Arg("index", LittleEndianPut(4, i))
IdentityArg(id) == Arg("identity", Encode("Identity", id))
SignatureArg(sig) == Arg("signature", sig)

InvokeInst(iid, command, args) ==
    Instruction(iid, InvokeType, ContractDeferredID, command, args)

HashAt(c, i) ==
    IF i < Len(c.InstructionHashes) THEN c.InstructionHashes[i + 1]
    ELSE AlienDigest

AddProofInsts(iid, c) ==
    LET n == Len(c.ProposedTransaction.Instructions)
        good == Sign(Owner, HashAt(c, 0))
    IN  UNION { { InvokeInst(iid, "addProof",
                             <<IndexArg(p[1]), IdentityArg(p[2]),
                               SignatureArg(sig)>>) :
                    sig \in { Sign(signer, HashAt(c, p[1])) :
                                signer \in Identities }
                            \cup { Sign(p[2], AlienDigest) } } :
                  p \in (0..n) \X Identities }
        \cup { InvokeInst(iid, "addProof", args) :
                 args \in { <<IdentityArg(Owner), SignatureArg(good)>>,
                            <<Arg("index", <<0>>), IdentityArg(Owner),
                              SignatureArg(good)>>,
                            <<IndexArg(0), SignatureArg(good)>>,
                            <<IndexArg(0),
                              Arg("identity", Encode("garbage", Owner)),
                              SignatureArg(good)>>,
                            <<IndexArg(0), IdentityArg(Owner)>> } }

InvokeInsts(iid, c) ==
    AddProofInsts(iid, c)
    \cup { InvokeInst(iid, "execProposedTx", <<>>),
           InvokeInst(iid, "update", <<>>) }

DeleteInst(iid) == Instruction(iid, DeleteType, ContractDeferredID, "", <<>>)

\* the live deferred instances and the contract built from the stored bytes
DeferredLive(t) == { iid \in DOMAIN t : t[iid].ContractID = ContractDeferredID }

Contract(t, iid) == contractDeferredFromBytes(t[iid].Data)

\* the contract built from no bytes, on which a Spawn is called
EmptyContract ==
    deferredData(ClientTransaction(<<>>), 0, <<>>, 0, <<>>)


(***************************************************************************)
(* The long-term-secret contract of calypso: an instance holds the roster  *)
(* that keeps the secret, and "reshare" replaces it.  A roster is the list *)
(* of the identifiers of its servers.                                      *)
(***************************************************************************)
ContractLongTermSecretID == "longTermSecret"


\* the division of Go integers, which rounds towards zero
GoDiv(a, b) == IF a >= 0 THEN a \div b ELSE -((-a) \div b)

\* onet.Roster.Search(id): the position of the server in the list, or -1
RosterSearch(list, id) ==
    IF \E i \in 1..Len(list) : list[i] = id
    THEN (CHOOSE i \in 1..Len(list) :
             list[i] = id /\ \A j \in 1..(i - 1) : list[j] # id) - 1
    ELSE -1

\* intersectRosters: the entries of r2 that Search finds in r1
RECURSIVE intersectRosters(_, _)
intersectRosters(r1, r2) ==
    IF r2.List = <<>> THEN 0
    ELSE (IF RosterSearch(r1.List, Head(r2.List)) # -1 THEN 1 ELSE 0)
         + intersectRosters(r1, [r2 EXCEPT !.List = Tail(r2.List)])

\* contractLTS.Invoke
contractLTSInvoke(rst, inst) ==
    LET iid == inst.InstanceID
        infoBuf == Search(inst.Args, "lts_instance_info")
    IN IF iid \notin DOMAIN rst.trie THEN Fail(ErrInstanceNotFound)
       ELSE IF inst.Command # "reshare" THEN Fail("can only reshare long-term secrets")
       ELSE IF infoBuf.isNil THEN Fail("need a lts_instance_info argument")
       ELSE IF ~DecodeOk(infoBuf.buf, "LtsInstanceInfo") THEN Fail("passed lts_instance_info argument is invalid")
       ELSE IF ~DecodeOk(rst.trie[iid].Data, "LtsInstanceInfo")
            THEN Fail("current info is invalid")
       ELSE LET curInfo == rst.trie[iid].Data.v
                newInfo == infoBuf.buf.v
                n == Len(curInfo.Roster.List)
                overlap == intersectRosters(curInfo.Roster, newInfo.Roster)
                threshold == n - GoDiv(n - 1, 3)
            IN IF overlap < threshold THEN Fail("new roster does not overlap enough with current roster")
               ELSE Ok(<<NewStateChange("Update", iid, ContractLongTermSecretID,
                                        infoBuf.buf, rst.trie[iid].DarcID)>>)

(***************************************************************************)
(* The write contract of calypso: a write instance holds a Write with the  *)
(* cost of a read, and spawns the read instances.                          *)
(***************************************************************************)
ContractWriteID == "calypsoWrite"


Coin(name, value) == [Name |-> name, Value |-> value]

\* the Write of a write instance: the cost of a read, and whether its proof
\* checks against a darc
Write(cost, proofDarc) == [Cost |-> cost, ProofDarc |-> proofDarc]

\* Write.CheckProof(suite, darcID)
CheckProof(w, darcID) == w.ProofDarc = darcID

\* Coin.SafeSub(a): the coin less a, or an error when the coin holds less
SafeSub(coin, a) ==
    IF a <= coin.Value
    THEN [ok |-> TRUE, coin |-> [coin EXCEPT !.Value = coin.Value - a]]
    ELSE [ok |-> FALSE, coin |-> coin]

\* the loop over the coins, from the coin i on: the first coin of the name of
\* the cost pays
RECURSIVE PayCost(_, _, _)
PayCost(cout, cost, i) ==
    IF i > Len(cout) THEN [ok |-> TRUE, cout |-> cout]
    ELSE IF cout[i].Name = cost.Name
         THEN LET sub == SafeSub(cout[i], cost.Value)
              IN IF ~sub.ok THEN [ok |-> FALSE, cout |-> cout]
                 ELSE [ok |-> TRUE, cout |-> [cout EXCEPT ![i] = sub.coin]]
    ELSE PayCost(cout, cost, i + 1)

\* the result of Spawn: state changes, coins and error
SpawnResult(sc, cout, err) == [sc |-> sc, cout |-> cout, err |-> err]

\* ContractWrite.Spawn, c being the Write of the contract
contractWriteSpawn(c, rst, inst, coins) ==
    LET v == GetValues(rst, inst.InstanceID)
    IN IF ~v.ok THEN SpawnResult(<<>>, coins, ErrInstanceNotFound)
       ELSE CASE inst.ContractID = ContractWriteID ->
                LET w == Search(inst.Args, "write")
                    d == Search(inst.Args, "darcID")
                    darcID == IF d.isNil THEN v.darcID ELSE d.buf
                IN IF w.isNil THEN SpawnResult(<<>>, coins, "need a write request in 'write' argument")
                   ELSE IF ~DecodeOk(w.buf, "Write")
                        THEN SpawnResult(<<>>, coins, "couldn't unmarshal write")
                   ELSE IF ~CheckProof(w.buf.v, darcID)
                        THEN SpawnResult(<<>>, coins, "proof of write failed")
                   ELSE SpawnResult(
                           <<NewStateChange("Create", DeriveID(inst),
                                            ContractWriteID, w.buf, darcID)>>,
                           coins, NoErr)
              [] inst.ContractID = ContractReadID ->
                LET r == Search(inst.Args, "read")
                    paid == IF c.Cost.Value > 0 THEN PayCost(coins, c.Cost, 1)
                            ELSE [ok |-> TRUE, cout |-> coins]
                IN IF r.isNil THEN SpawnResult(<<>>, <<>>, "need a read argument")
                   ELSE IF ~DecodeOk(r.buf, "Read")
                        THEN SpawnResult(<<>>, <<>>, "passed read argument is invalid")
                   ELSE IF r.buf.v.Write # inst.InstanceID
                        THEN SpawnResult(<<>>, <<>>, "the read request doesn't reference this write-instance")
                   ELSE IF ~paid.ok THEN SpawnResult(<<>>, <<>>, "couldn't pay for read request")
                   ELSE SpawnResult(
                           <<NewStateChange("Create", DeriveID(inst),
                                            ContractReadID, r.buf, v.darcID)>>,
                           paid.cout, NoErr)
              [] OTHER -> SpawnResult(<<>>, coins, "can only spawn writes and reads")

(***************************************************************************)
(* The state machine.                                                      *)
(*                                                                         *)
(* The ledger handles one instruction at a time: it calls the contract's   *)
(* VerifyInstruction, then its Spawn, Invoke or Delete, and applies the    *)
(* returned state changes when both succeeded.  A client can also call     *)
(* Invoke on the contract of a stored instance without going through the   *)
(* ledger; what such a call returns is not applied.                        *)
(***************************************************************************)
rst == [trie |-> trie, index |-> index]

\* the goroutines, and a goroutine that is in no call of the registry
Threads == 1..NumThreads

IdleThread ==
    [pc |-> "idle", op |-> "", contractName |-> "", contractFn |-> "",
     fn |-> "", exist |-> FALSE, lo |-> 0, raced |-> FALSE]


Init ==
    /\ trie = (DarcIID :> [ContractID |-> "darc", Data |-> Encode("darc", <<>>),
                           DarcID |-> DarcIID])
              @@ (CoinIID :> [ContractID |-> ContractCoinID,
                              Data |-> Encode(ContractCoinID, <<>>),
                              DarcID |-> DarcIID])
    /\ index = 0
    /\ registry = (ContractDeferredID :> "contractDeferredFromBytes")
                  @@ (ContractCoinID :> "contractCoinFromBytes")
    /\ pc = "idle"
    /\ cur = <<>>
    /\ res = <<>>
    /\ hist = <<>>
    /\ locked = FALSE
    /\ thr = [t \in Threads |-> IdleThread]
    /\ regLog = <<>>

\* the instructions a client can submit in the current state: the model
\* follows one deferred instance, from its Spawn to its Delete
Submittable ==
    IF DOMAIN hist = {} THEN SpawnInsts
    ELSE UNION { InvokeInsts(iid, Contract(trie, iid).c) \cup {DeleteInst(iid)} :
                   iid \in DeferredLive(trie) }

\* the contract that handles inst
Handler(inst) ==
    IF inst.Type = SpawnType THEN EmptyContract
    ELSE Contract(trie, inst.InstanceID).c

\* the ledger calls VerifyInstruction on a submitted instruction
LedgerVerify(inst, basic) ==
    /\ pc = "idle"
    /\ LET verr == VerifyInstruction(Handler(inst), rst, inst, basic)
       IN /\ pc' = IF verr = NoErr THEN "verified" ELSE "done"
          /\ res' = IF verr = NoErr THEN <<>> ELSE <<Fail(verr)>>
    /\ cur' = <<[inst |-> inst, basic |-> basic]>>
    /\ UNCHANGED <<trie, index, registry, hist, locked, thr, regLog>>

\* Spawn, Invoke or Delete of the contract, by the type of the instruction
Execute(inst) ==
    CASE inst.Type = SpawnType -> Spawn(rst, inst)
      [] inst.Type = InvokeType -> Invoke(Handler(inst), registry, rst, inst)
      [] inst.Type = DeleteType -> Delete(Handler(inst), rst, inst)

\* the ledger calls the contract on a verified instruction
LedgerExecute ==
    /\ pc = "verified"
    /\ res' = <<Execute(cur[1].inst)>>
    /\ pc' = "done"
    /\ UNCHANGED <<trie, index, registry, cur, hist, locked, thr, regLog>>

\* the history kept of a deferred instance, for the properties
HistAfter(h, inst, r) ==
    CASE inst.Type = SpawnType ->
            LET data == r.sc[1].Value.v
            IN  [j \in DOMAIN h \cup {r.sc[1].InstanceID} |->
                    IF j = r.sc[1].InstanceID
                    THEN [n |-> data.NumExecution,
                          hashes |-> data.InstructionHashes,
                          tx |-> data.ProposedTransaction,
                          binding |-> Slice(inst.InstanceID),
                          execs |-> 0,
                          deleted |-> FALSE]
                    ELSE h[j]]
      [] inst.Type = DeleteType ->
            [h EXCEPT ![inst.InstanceID].deleted = TRUE]
      [] inst.Type = InvokeType /\ inst.Command = "execProposedTx" ->
            [h EXCEPT ![inst.InstanceID].execs = @ + 1]
      [] OTHER -> h

\* the ledger applies the state changes of an instruction that succeeded
LedgerCommit ==
    /\ pc = "done"
    /\ res[1].err = NoErr
    /\ trie' = Apply(trie, res[1].sc)
    /\ hist' = HistAfter(hist, cur[1].inst, res[1])
    /\ pc' = "idle"
    /\ cur' = <<>>
    /\ res' = <<>>
    /\ UNCHANGED <<index, registry, locked, thr, regLog>>

\* the ledger refuses an instruction that failed: nothing is applied
LedgerReject ==
    /\ pc = "done"
    /\ res[1].err # NoErr
    /\ pc' = "idle"
    /\ cur' = <<>>
    /\ res' = <<>>
    /\ UNCHANGED <<trie, index, registry, hist, locked, thr, regLog>>

\* a client calls Invoke on the contract of a stored instance
CallInvoke(inst) ==
    /\ pc = "idle"
    /\ inst.Type = InvokeType
    /\ res' = <<Invoke(Handler(inst), registry, rst, inst)>>
    /\ cur' = <<[inst |-> inst, basic |-> NoErr]>>
    /\ pc' = "called"
    /\ UNCHANGED <<trie, index, registry, hist, locked, thr, regLog>>

\* the call returns
CallReturn ==
    /\ pc = "called"
    /\ pc' = "idle"
    /\ cur' = <<>>
    /\ res' = <<>>
    /\ UNCHANGED <<trie, index, registry, hist, locked, thr, regLog>>

\* the ledger adds a block
AdvanceBlock ==
    /\ pc = "idle"
    /\ index < MaxIndex
    /\ index' = index + 1
    /\ UNCHANGED <<trie, registry, pc, cur, res, hist, locked, thr, regLog>>

\* a service registers a contract
Registrations ==
    { <<ContractCoinID, "contractCoinFromBytes">>,
      <<ContractReadID, "contractReadFromBytes">> }

RegisterContract(contractName, contractFn) ==
    /\ pc = "idle"
    /\ registry' = RegistryPut(registry, contractName, contractFn)
    /\ UNCHANGED <<trie, index, pc, cur, res, hist, locked, thr, regLog>>

Next ==
    \/ /\ pc = "idle"
       /\ \E inst \in Submittable, basic \in {NoErr, ErrNotAuthorized} :
             LedgerVerify(inst, basic)
    \/ LedgerExecute
    \/ LedgerCommit
    \/ LedgerReject
    \/ /\ pc = "idle"
       /\ \E inst \in Submittable : CallInvoke(inst)
    \/ CallReturn
    \/ AdvanceBlock
    \/ \E r \in Registrations : RegisterContract(r[1], r[2])

Spec == Init /\ [][Next]_vars

(***************************************************************************)
(* The ledger with two deferred instances: clients spawn two instances     *)
(* under the same darc with the same proposed transaction, and send        *)
(* addProof instructions to both.                                          *)
(***************************************************************************)
ReplaySpawnInsts ==
    { SpawnInst(<<TxArg(<<PTransfer>>), ExpireArg(MaxIndex)>>),
      SpawnInst(<<TxArg(<<PTransfer>>), ExpireArg(MaxIndex),
                  NumArg(MaxNumExecution)>>),
      SpawnInst(<<TxArg(<<PMint, PTransfer>>), ExpireArg(MaxIndex)>>) }

ReplaySubmittable ==
    { s \in ReplaySpawnInsts : DeriveID(s) \notin DOMAIN hist }
    \cup UNION { AddProofInsts(iid, Contract(trie, iid).c) :
                   iid \in DeferredLive(trie) }

ReplayNext ==
    \/ /\ pc = "idle"
       /\ Cardinality(DOMAIN hist) < 2
       /\ \E inst \in ReplaySubmittable : LedgerVerify(inst, NoErr)
    \/ /\ pc = "idle"
       /\ Cardinality(DOMAIN hist) = 2
       /\ \E inst \in ReplaySubmittable :
             /\ inst.Type = InvokeType
             /\ LedgerVerify(inst, NoErr)
    \/ LedgerExecute
    \/ LedgerCommit
    \/ LedgerReject

ReplaySpec == Init /\ [][ReplayNext]_vars

(***************************************************************************)
(* hashDeferred as a pure function: it is called on two instructions with  *)
(* one binding identifier.                                                 *)
(***************************************************************************)
HashArgLists ==
    { <<>>,
      <<Arg("coins", <<5>>)>>,
      <<Arg("type", <<1>>)>>,
      <<Arg("coins", <<5>>), Arg("type", <<1>>)>>,
      <<Arg("type", <<1>>), Arg("coins", <<5>>)>>,
      <<Arg("coin", <<115>>)>>,
      <<Arg("coins", <<>>)>> }

HashInstructions ==
    UNION { { Instruction(iid, SpawnType, cid, "", args) : args \in HashArgLists }
            \cup { Instruction(iid, InvokeType, cid, "transfer", args) :
                       args \in HashArgLists }
            \cup { Instruction(iid, InvokeType, cid, "mint", args) :
                       args \in HashArgLists }
            \cup { Instruction(iid, DeleteType, cid, "", <<>>) } :
            iid \in {DarcIID, CoinIID},
            cid \in {ContractCoinID, ContractReadID} }

HashBindings == { Slice(DarcIID), Slice(DeriveID(PTransfer)) }

HashCall(a, b, instanceID) ==
    /\ pc = "idle"
    /\ pc' = "hashing"
    /\ cur' = <<[a |-> a, b |-> b, instanceID |-> instanceID]>>
    /\ res' = <<>>
    /\ UNCHANGED <<trie, index, registry, hist, locked, thr, regLog>>

HashReturn ==
    /\ pc = "hashing"
    /\ pc' = "hashed"
    /\ res' = <<hashDeferred(cur[1].a, cur[1].instanceID),
                hashDeferred(cur[1].b, cur[1].instanceID)>>
    /\ UNCHANGED <<trie, index, registry, cur, hist, locked, thr, regLog>>

HashDone ==
    /\ pc = "hashed"
    /\ pc' = "idle"
    /\ cur' = <<>>
    /\ res' = <<>>
    /\ UNCHANGED <<trie, index, registry, hist, locked, thr, regLog>>

HashNext ==
    \/ \E a, b \in HashInstructions, instanceID \in HashBindings :
          HashCall(a, b, instanceID)
    \/ HashReturn
    \/ HashDone

HashSpec == Init /\ [][HashNext]_vars

\* the long-term-secret instance and the rosters that clients propose
LtsIID == RawID(<<3>>)

RECURSIVE RostersOfLen(_)
RostersOfLen(n) ==
    IF n = 0 THEN {<<>>}
    ELSE UNION { { Append(r, x) : x \in (1..MaxNodes) } : r \in RostersOfLen(n - 1) }

Rosters == UNION { RostersOfLen(n) : n \in 0..MaxRosterLen }

ReshareInsts ==
    LET ReshareInst(command, args) ==
            Instruction(LtsIID, InvokeType, ContractLongTermSecretID,
                        command, args)
        InfoArg(list) ==
            Arg("lts_instance_info",
                Encode("LtsInstanceInfo", [Roster |-> [List |-> list]]))
    IN  { ReshareInst("reshare", <<InfoArg(list)>>) : list \in Rosters }
        \cup { ReshareInst("update", <<InfoArg(<<1>>)>>),
               ReshareInst("reshare", <<>>),
               ReshareInst("reshare",
                           <<Arg("lts_instance_info",
                                 Encode("garbage", <<>>))>>) }

LtsInit ==
    /\ trie = (DarcIID :> [ContractID |-> "darc", Data |-> Encode("darc", <<>>),
                           DarcID |-> DarcIID])
              @@ (LtsIID :> [ContractID |-> ContractLongTermSecretID,
                             Data |-> Encode("LtsInstanceInfo",
                                             [Roster |-> [List |-> [i \in (1..MaxNodes) |-> i]]]),
                             DarcID |-> DarcIID])
    /\ index = 0
    /\ registry = (ContractLongTermSecretID :> "contractLTSFromBytes")
    /\ pc = "idle"
    /\ cur = <<>>
    /\ res = <<>>
    /\ hist = <<>>
    /\ locked = FALSE
    /\ thr = [t \in Threads |-> IdleThread]
    /\ regLog = <<>>

\* the ledger calls Invoke of the long-term-secret contract
LtsExecute(inst) ==
    /\ pc = "idle"
    /\ res' = <<contractLTSInvoke(rst, inst)>>
    /\ cur' = <<[inst |-> inst, basic |-> NoErr]>>
    /\ pc' = "done"
    /\ UNCHANGED <<trie, index, registry, hist, locked, thr, regLog>>

\* the ledger applies the state changes of an accepted instruction
LtsCommit ==
    /\ pc = "done"
    /\ res[1].err = NoErr
    /\ trie' = Apply(trie, res[1].sc)
    /\ pc' = "idle"
    /\ cur' = <<>>
    /\ res' = <<>>
    /\ UNCHANGED <<index, registry, hist, locked, thr, regLog>>

\* the ledger drops a refused instruction
LtsReject ==
    /\ pc = "done"
    /\ res[1].err # NoErr
    /\ pc' = "idle"
    /\ cur' = <<>>
    /\ res' = <<>>
    /\ UNCHANGED <<trie, index, registry, hist, locked, thr, regLog>>

LtsNext ==
    \/ \E inst \in ReshareInsts : LtsExecute(inst)
    \/ LtsCommit
    \/ LtsReject

LtsSpec == LtsInit /\ [][LtsNext]_vars

(***************************************************************************)
(* The ledger with write instances: clients spawn write instances under    *)
(* the darc and read instances under the write instances, and give coins   *)
(* with their instructions.                                                *)
(***************************************************************************)
Costs == { Coin("read", value) : value \in 0..MaxCost }

Coins == { Coin(name, value) : name \in {"read", "other"}, value \in 0..MaxCost }

RECURSIVE CoinsOfLen(_)
CoinsOfLen(n) ==
    IF n = 0 THEN {<<>>}
    ELSE UNION { { Append(l, coin) : coin \in Coins } : l \in CoinsOfLen(n - 1) }

CoinLists == UNION { CoinsOfLen(n) : n \in 0..MaxCoins }

SpawnWriteInsts ==
    LET SpawnWriteInst(args) ==
            Instruction(DarcIID, SpawnType, ContractWriteID, "", args)
        WriteArg(cost, proofDarc) ==
            Arg("write", Encode("Write", Write(cost, proofDarc)))
    IN  { SpawnWriteInst(<<WriteArg(cost, Slice(DarcIID))>>) : cost \in Costs }
        \cup { SpawnWriteInst(<<>>),
               SpawnWriteInst(<<Arg("write", Encode("garbage", <<>>))>>),
               SpawnWriteInst(<<WriteArg(Coin("read", 0), Slice(CoinIID))>>),
               SpawnWriteInst(<<WriteArg(Coin("read", 0), Slice(CoinIID)),
                                Arg("darcID", Slice(CoinIID))>>),
               Instruction(DarcIID, SpawnType, ContractCoinID, "", <<>>) }

SpawnReadInsts(iid) ==
    LET ReadArg(write) == Arg("read", Encode("Read", [Write |-> write]))
    IN  { Instruction(iid, SpawnType, ContractReadID, "", <<ReadArg(iid)>>),
          Instruction(iid, SpawnType, ContractReadID, "", <<ReadArg(DarcIID)>>),
          Instruction(iid, SpawnType, ContractReadID, "", <<>>),
          Instruction(iid, SpawnType, ContractReadID, "",
                      <<Arg("read", Encode("garbage", <<>>))>>) }

WriteLive(t) == { iid \in DOMAIN t : t[iid].ContractID = ContractWriteID }

WriteSubmittable ==
    { s \in SpawnWriteInsts : DeriveID(s) \notin DOMAIN trie }
    \cup UNION { { s \in SpawnReadInsts(iid) : DeriveID(s) \notin DOMAIN trie } :
                   iid \in WriteLive(trie) }

\* the Write of the contract that handles inst: the stored one for an
\* instruction sent to a write instance, an empty one otherwise
WriteHandler(inst) ==
    IF inst.InstanceID \in WriteLive(trie)
    THEN trie[inst.InstanceID].Data.v
    ELSE Write(Coin("", 0), <<>>)

WriteInit ==
    /\ trie = (DarcIID :> [ContractID |-> "darc", Data |-> Encode("darc", <<>>),
                           DarcID |-> Slice(DarcIID)])
    /\ index = 0
    /\ registry = (ContractWriteID :> "contractWriteFromBytes")
    /\ pc = "idle"
    /\ cur = <<>>
    /\ res = <<>>
    /\ hist = <<>>
    /\ locked = FALSE
    /\ thr = [t \in Threads |-> IdleThread]
    /\ regLog = <<>>

\* the ledger calls Spawn of the write contract with the coins of the client
WriteExecute(inst, coins) ==
    /\ pc = "idle"
    /\ res' = <<contractWriteSpawn(WriteHandler(inst), rst, inst, coins)>>
    /\ cur' = <<[inst |-> inst, basic |-> NoErr, coins |-> coins]>>
    /\ pc' = "done"
    /\ UNCHANGED <<trie, index, registry, hist, locked, thr, regLog>>

WriteNext ==
    \/ \E inst \in WriteSubmittable, coins \in CoinLists :
          WriteExecute(inst, coins)
    \/ LtsCommit
    \/ LtsReject

WriteSpec == WriteInit /\ [][WriteNext]_vars

(***************************************************************************)
(* The registry under concurrent calls.                                    *)
(*                                                                         *)
(* Each goroutine calls RegisterContract or GetContractConstructor: it     *)
(* locks the mutex, accesses the map, and unlocks when the call returns    *)
(* (defer c.Unlock()).  The access to the map takes two steps, so that two *)
(* goroutines can be inside the map at the same time if the mutex lets     *)
(* them; a read or a write of the map that overlaps a write of another     *)
(* goroutine is a data race, whose outcome is not determined: the read     *)
(* returns the entry or a torn value, the write is done or lost.           *)
(***************************************************************************)
ledgerVars == <<trie, index, pc, cur, res, hist>>

RegNames == {ContractCoinID, ContractReadID}
RegFns == {"contractCoinFromBytes", "contractReadFromBytes"}

\* what a racing read of the map can return besides the entry
Torn == "torn"

\* NewContractRegistry: an empty map and an unlocked mutex
RegistryInit ==
    /\ trie = <<>>
    /\ index = 0
    /\ pc = "idle"
    /\ cur = <<>>
    /\ res = <<>>
    /\ hist = <<>>
    /\ registry = <<>>
    /\ locked = FALSE
    /\ thr = [t \in Threads |-> IdleThread]
    /\ regLog = <<>>

\* the registrations that were called and have not written to the map yet
PendingRegistrations ==
    { t \in Threads : thr[t].op = "register"
                      /\ thr[t].pc \in {"lock", "access", "inmap"} }

\* a goroutine calls RegisterContract(contractName, contractFn)
CallRegisterContract(t, contractName, contractFn) ==
    /\ thr[t].pc = "idle"
    /\ Len(regLog) + Cardinality(PendingRegistrations) < MaxRegistrations
    /\ thr' = [thr EXCEPT ![t] =
                  [IdleThread EXCEPT !.pc = "lock", !.op = "register",
                                     !.contractName = contractName,
                                     !.contractFn = contractFn,
                                     !.lo = Len(regLog)]]
    /\ UNCHANGED <<registry, locked, regLog>>
    /\ UNCHANGED ledgerVars

\* a goroutine calls GetContractConstructor(contractName)
CallGetContractConstructor(t, contractName) ==
    /\ thr[t].pc = "idle"
    /\ thr' = [thr EXCEPT ![t] =
                  [IdleThread EXCEPT !.pc = "lock", !.op = "lookup",
                                     !.contractName = contractName,
                                     !.lo = Len(regLog)]]
    /\ UNCHANGED <<registry, locked, regLog>>
    /\ UNCHANGED ledgerVars

\* c.Lock(): waits until the mutex is free and takes it
MutexLock_NoWait(t) ==
    /\ thr[t].pc = "lock"
    /\ locked' = TRUE
    /\ thr' = [thr EXCEPT ![t].pc = "access"]
    /\ UNCHANGED <<registry, regLog>>
    /\ UNCHANGED ledgerVars

MutexLock(t) ==
    /\ thr[t].pc = "lock"
    /\ ~locked
    /\ locked' = TRUE
    /\ thr' = [thr EXCEPT ![t].pc = "access"]
    /\ UNCHANGED <<registry, regLog>>
    /\ UNCHANGED ledgerVars

\* the goroutines whose access to the map races with an access of t that
\* begins now: those inside the map, if t or they write
RacingWith(t) ==
    { u \in Threads \ {t} :
         /\ thr[u].pc = "inmap"
         /\ thr[t].op = "register" \/ thr[u].op = "register" }

\* the goroutine enters the map: c.registry[contractName]
MapBegin(t) ==
    /\ thr[t].pc = "access"
    /\ thr' = [u \in Threads |->
                  IF u = t
                  THEN [thr[u] EXCEPT !.pc = "inmap",
                                      !.raced = RacingWith(t) # {}]
                  ELSE IF u \in RacingWith(t)
                       THEN [thr[u] EXCEPT !.raced = TRUE]
                       ELSE thr[u]]
    /\ UNCHANGED <<registry, locked, regLog>>
    /\ UNCHANGED ledgerVars

\* c.registry[contractName] = contractFn is done
MapWrite(t) ==
    /\ thr[t].pc = "inmap"
    /\ thr[t].op = "register"
    /\ registry' \in
          {RegistryPut(registry, thr[t].contractName, thr[t].contractFn)}
          \cup (IF thr[t].raced THEN {registry} ELSE {})
    /\ regLog' = Append(regLog, [contractName |-> thr[t].contractName,
                                 contractFn |-> thr[t].contractFn])
    /\ thr' = [thr EXCEPT ![t].pc = "unlock"]
    /\ UNCHANGED locked
    /\ UNCHANGED ledgerVars

\* fn, exist = c.registry[contractName] is done
MapRead(t) ==
    /\ thr[t].pc = "inmap"
    /\ thr[t].op = "lookup"
    /\ \E r \in {GetContractConstructor(registry, thr[t].contractName)}
                \cup (IF thr[t].raced THEN {[fn |-> Torn, exist |-> TRUE]}
                                      ELSE {}) :
          thr' = [thr EXCEPT ![t].pc = "unlock", ![t].fn = r.fn,
                             ![t].exist = r.exist]
    /\ UNCHANGED <<registry, locked, regLog>>
    /\ UNCHANGED ledgerVars

\* the call returns and the deferred c.Unlock() runs
MutexUnlock_KeepsLock(t) ==
    /\ thr[t].pc = "unlock"
    /\ thr' = [thr EXCEPT ![t] = IdleThread]
    /\ UNCHANGED <<registry, locked, regLog>>
    /\ UNCHANGED ledgerVars

MutexUnlock(t) ==
    /\ thr[t].pc = "unlock"
    /\ locked' = FALSE
    /\ thr' = [thr EXCEPT ![t] = IdleThread]
    /\ UNCHANGED <<registry, regLog>>
    /\ UNCHANGED ledgerVars

RegistryNext ==
    \/ \E t \in Threads, n \in RegNames, f \in RegFns :
          CallRegisterContract(t, n, f)
    \/ \E t \in Threads, n \in RegNames : CallGetContractConstructor(t, n)
    \/ \E t \in Threads : MutexLock(t)
    \/ \E t \in Threads : MapBegin(t)
    \/ \E t \in Threads : MapWrite(t)
    \/ \E t \in Threads : MapRead(t)
    \/ \E t \in Threads : MutexUnlock(t)

RegistrySpec == RegistryInit /\ [][RegistryNext]_vars

\* the scheduler runs every goroutine that can take a step, and sync.Mutex
\* hands the lock to a goroutine that keeps waiting for it
RegistryFairness ==
    \A t \in Threads :
       /\ SF_vars(MutexLock(t))
       /\ WF_vars(MapBegin(t))
       /\ WF_vars(MapWrite(t))
       /\ WF_vars(MapRead(t))
       /\ WF_vars(MutexUnlock(t))

\* whether a call returns does not depend on the name or the constructor it
\* is given: the calls of the fair specification all use the same ones
FairRegistryNext ==
    \/ \E t \in Threads :
          CallRegisterContract(t, ContractCoinID, "contractCoinFromBytes")
    \/ \E t \in Threads : CallGetContractConstructor(t, ContractCoinID)
    \/ \E t \in Threads : MutexLock(t)
    \/ \E t \in Threads : MapBegin(t)
    \/ \E t \in Threads : MapWrite(t)
    \/ \E t \in Threads : MapRead(t)
    \/ \E t \in Threads : MutexUnlock(t)

FairRegistrySpec ==
    RegistryInit /\ [][FairRegistryNext]_vars /\ RegistryFairness

(***************************************************************************)
(* Properties.                                                             *)
(*                                                                         *)
(* While an instruction is being handled (pc is not "idle"), trie is still *)
(* the state the contract read, and res[1].sc the state changes it         *)
(* returned: Apply(trie, res[1].sc) is the state after the instruction.    *)
(***************************************************************************)
\* the data stored for the deferred instance iid
Stored(iid) == Contract(trie, iid).c

\* the data of iid after the state changes scs
StoredAfter(iid, scs) == Apply(trie, scs)[iid].Data.v

\* the contract returned for an Invoke with that command, through the ledger
\* ("done": VerifyInstruction then Invoke) or on a direct call ("called")
Returned(pcs, command) ==
    /\ pc \in pcs
    /\ cur[1].inst.Type = InvokeType
    /\ cur[1].inst.Command = command

\* the index argument of the addProof being handled is well-formed
IndexGiven ==
    /\ ~Search(cur[1].inst.Args, "index").isNil
    /\ Len(Search(cur[1].inst.Args, "index").buf) >= 4

GivenIndex == LittleEndianUint32(Search(cur[1].inst.Args, "index").buf)

\* the identity argument of the addProof being handled is well-formed
IdentityGiven ==
    /\ ~Search(cur[1].inst.Args, "identity").isNil
    /\ DecodeOk(Search(cur[1].inst.Args, "identity").buf, "Identity")

GivenIdentity == Search(cur[1].inst.Args, "identity").buf.v

SignatureGiven == ~Search(cur[1].inst.Args, "signature").isNil

GivenSignature == Search(cur[1].inst.Args, "signature").buf

\* the elements of a sequence
Range(seq) == { seq[k] : k \in 1..Len(seq) }

\* C1: the stored NumExecution of a deferred instance spawned with
\* NumExecution = n is n minus the number of execProposedTx that succeeded, it
\* stays within 0..n (no wrap-around), an instruction that succeeds leaves it
\* unchanged or, for execProposedTx, lowers it by one, and an authorized
\* execProposedTx on an instance whose NumExecution is 0 is rejected with the
\* maximum-executions error.
C1_ExecutionCounter ==
    /\ \A iid \in DOMAIN hist :
          ~hist[iid].deleted =>
             /\ Stored(iid).NumExecution = hist[iid].n - hist[iid].execs
             /\ Stored(iid).NumExecution \in 0..hist[iid].n
             /\ hist[iid].execs <= hist[iid].n
    /\ Returned({"done"}, "execProposedTx") /\ cur[1].basic = NoErr
       /\ Stored(cur[1].inst.InstanceID).NumExecution = 0
          => res[1].err = ErrMaxExecutions
    /\ pc = "done" /\ cur[1].inst.Type = InvokeType /\ res[1].err = NoErr
          => LET iid == cur[1].inst.InstanceID
             IN StoredAfter(iid, res[1].sc).NumExecution =
                   IF cur[1].inst.Command = "execProposedTx"
                   THEN Stored(iid).NumExecution - 1
                   ELSE Stored(iid).NumExecution

\* C1 witness: an instance spawned with NumExecution = 1 was executed once
\* and a second execProposedTx is rejected with the maximum-executions error.
C1_Witness ==
    /\ Returned({"done"}, "execProposedTx")
    /\ cur[1].basic = NoErr
    /\ hist[cur[1].inst.InstanceID].n = 1
    /\ hist[cur[1].inst.InstanceID].execs = 1
    /\ res[1].err = ErrMaxExecutions

\* the Invoke body ran on the instruction being handled: on a direct call,
\* and through the ledger when VerifyInstruction accepted the instruction
BodyRan(command) ==
    /\ Returned({"done", "called"}, command)
    /\ pc = "done" =>
          VerifyInstruction(Handler(cur[1].inst), rst, cur[1].inst,
                            cur[1].basic) = NoErr

\* the proposed instruction i of the instance being executed fails at its
\* lookup, construction, verification or execution
InstructionFails(i) ==
    ExecInstruction(Stored(cur[1].inst.InstanceID), registry, rst, i).err # NoErr

\* C2: when some proposed instruction of an execProposedTx fails, the
\* invocation returns an error and no state change, and the stored data of
\* the deferred instance stays as it was.
C2_Atomicity ==
    BodyRan("execProposedTx")
    /\ (\E i \in 1..Len(Stored(cur[1].inst.InstanceID).ProposedTransaction.Instructions) :
           InstructionFails(i))
       => /\ res[1].err \in {ErrNoRootFunction, ErrRootContract,
                             ErrVerifyFailed, ErrExecFailed}
          /\ res[1].sc = <<>>
          /\ Apply(trie, res[1].sc) = trie

\* C2 witness: the first proposed instruction verifies and executes with a
\* state change, the second one fails, and nothing is returned.
C2_Witness ==
    /\ BodyRan("execProposedTx")
    /\ pc = "done"
    /\ Len(Stored(cur[1].inst.InstanceID).ProposedTransaction.Instructions) = 2
    /\ ~InstructionFails(1)
    /\ ExecInstruction(Stored(cur[1].inst.InstanceID), registry, rst, 1).sc # <<>>
    /\ InstructionFails(2)
    /\ res[1].err = ErrExecFailed
    /\ res[1].sc = <<>>

\* an authorized Invoke is handled while the index is above ExpireBlockIndex
InvokePastExpiry ==
    /\ pc = "done"
    /\ cur[1].inst.Type = InvokeType
    /\ cur[1].basic = NoErr
    /\ index > Stored(cur[1].inst.InstanceID).ExpireBlockIndex

\* C3 as stated: every Invoke past the expiry fails with the expired error,
\* whatever NumExecution is, and changes nothing.
C3_Original ==
    InvokePastExpiry => /\ res[1].err = ErrExpired
                        /\ res[1].sc = <<>>

\* C3 amended: every authorized Invoke past the expiry is rejected with no
\* state change; the error is the expired error when NumExecution >= 1, and
\* the maximum-executions error when NumExecution = 0 (that check is first).
C3_Expiry ==
    InvokePastExpiry
       => /\ res[1].sc = <<>>
          /\ Apply(trie, res[1].sc) = trie
          /\ res[1].err =
                IF Stored(cur[1].inst.InstanceID).NumExecution >= 1
                THEN ErrExpired ELSE ErrMaxExecutions

\* C3 witness: an addProof on an instance with NumExecution >= 1 is rejected
\* as expired.
C3_Witness ==
    /\ InvokePastExpiry
    /\ cur[1].inst.Command = "addProof"
    /\ Stored(cur[1].inst.InstanceID).NumExecution >= 1
    /\ res[1].err = ErrExpired

\* the signer identities stored for the proposed instruction i (from 1)
StoredSigners(iid, i) ==
    Stored(iid).ProposedTransaction.Instructions[i].SignerIdentities

\* the addProof being handled names a proposed instruction and an identity
ProofTargeted ==
    /\ IndexGiven
    /\ GivenIndex < Len(Stored(cur[1].inst.InstanceID).ProposedTransaction.Instructions)
    /\ IdentityGiven

\* the ledger handled an addProof whose identity is already stored for the
\* proposed instruction it names
DuplicateProof ==
    /\ Returned({"done"}, "addProof")
    /\ ProofTargeted
    /\ GivenIdentity \in Range(StoredSigners(cur[1].inst.InstanceID, GivenIndex + 1))

\* the guards of every Invoke let the instruction being handled pass
GuardsPass ==
    /\ cur[1].basic = NoErr
    /\ Stored(cur[1].inst.InstanceID).NumExecution >= 1
    /\ index <= Stored(cur[1].inst.InstanceID).ExpireBlockIndex

\* C4: an addProof whose identity is already among the signers of the
\* targeted proposed instruction is rejected without any state change, with
\* the duplicate error once the guards of every Invoke passed; the duplicate
\* error is returned only for an identity stored at that very index, and an
\* identity not stored at the index (stored elsewhere or not) is accepted
\* with a valid signature.
C4_DuplicateSigner ==
    /\ DuplicateProof
          => /\ res[1].err # NoErr
             /\ res[1].sc = <<>>
             /\ Apply(trie, res[1].sc) = trie
             /\ GuardsPass => res[1].err = ErrDuplicate
    /\ Returned({"done"}, "addProof") /\ res[1].err = ErrDuplicate
          => DuplicateProof
    /\ Returned({"done"}, "addProof") /\ ProofTargeted /\ GuardsPass
       /\ SignatureGiven
       /\ GivenIdentity \notin Range(StoredSigners(cur[1].inst.InstanceID, GivenIndex + 1))
       /\ IdentityVerify(GivenIdentity,
                         Stored(cur[1].inst.InstanceID).InstructionHashes[GivenIndex + 1],
                         GivenSignature)
          => res[1].err = NoErr

\* C4 witness: an identity that is stored for both proposed instructions
\* offers a second proof for one of them and gets the duplicate error.
C4_Witness ==
    /\ DuplicateProof
    /\ res[1].err = ErrDuplicate
    /\ \E j \in 1..Len(Stored(cur[1].inst.InstanceID).ProposedTransaction.Instructions) :
          /\ j # GivenIndex + 1
          /\ GivenIdentity \in Range(StoredSigners(cur[1].inst.InstanceID, j))

\* the instance iid was spawned and is not deleted
Live(iid) == iid \in DOMAIN hist /\ ~hist[iid].deleted

\* C5: the ledger never lets through an addProof whose signature does not
\* verify against InstructionHashes[index] under the given identity, and
\* every (identity, signature) pair appended since the spawn to proposed
\* instruction i verifies against InstructionHashes[i].
C5_SignatureGate ==
    /\ Returned({"verified", "done"}, "addProof") /\ ProofTargeted
       /\ SignatureGiven
       /\ ~IdentityVerify(GivenIdentity,
                          Stored(cur[1].inst.InstanceID).InstructionHashes[GivenIndex + 1],
                          GivenSignature)
          => /\ pc = "done"
             /\ res[1].err # NoErr
             /\ res[1].sc = <<>>
             /\ GuardsPass
                /\ GivenIdentity \notin
                      Range(StoredSigners(cur[1].inst.InstanceID, GivenIndex + 1))
                   => res[1].err = ErrBadSignature
    /\ \A iid \in DOMAIN hist :
          Live(iid) =>
             \A i \in 1..Len(Stored(iid).ProposedTransaction.Instructions) :
                LET instr == Stored(iid).ProposedTransaction.Instructions[i]
                    ids == Len(hist[iid].tx.Instructions[i].SignerIdentities)
                    sigs == Len(hist[iid].tx.Instructions[i].Signatures)
                IN /\ Len(instr.SignerIdentities) - ids = Len(instr.Signatures) - sigs
                   /\ \A m \in 1..(Len(instr.SignerIdentities) - ids) :
                         IdentityVerify(instr.SignerIdentities[ids + m],
                                        Stored(iid).InstructionHashes[i],
                                        instr.Signatures[sigs + m])

\* C5 witness: a proof is already stored for a proposed instruction and an
\* addProof with another signer's signature is rejected as a bad signature.
C5_Witness ==
    /\ Returned({"done"}, "addProof")
    /\ ProofTargeted
    /\ StoredSigners(cur[1].inst.InstanceID, GivenIndex + 1) # <<>>
    /\ res[1].err = ErrBadSignature

\* C6: an execProposedTx that the ledger verified and that succeeded stores
\* ExecResult = the derived identifiers of the proposed instructions, in
\* stored order, and NumExecution = its previous value minus 1.
C6_ExecResult ==
    Returned({"done"}, "execProposedTx") /\ res[1].err = NoErr
       => LET iid == cur[1].inst.InstanceID
              old == Stored(iid)
              new == StoredAfter(iid, res[1].sc)
          IN /\ new.ExecResult =
                   [i \in 1..Len(old.ProposedTransaction.Instructions) |->
                       DeriveID(old.ProposedTransaction.Instructions[i])]
             /\ new.NumExecution = old.NumExecution - 1
             /\ res[1].sc[Len(res[1].sc)].Value = Encode("deferredData", new)

\* C6 witness: a successful execution of a transaction of two instructions
\* on an instance with NumExecution = 2, returning three state changes.
C6_Witness ==
    /\ Returned({"done"}, "execProposedTx")
    /\ res[1].err = NoErr
    /\ Len(StoredAfter(cur[1].inst.InstanceID, res[1].sc).ExecResult) = 2
    /\ Stored(cur[1].inst.InstanceID).NumExecution = 2
    /\ Len(res[1].sc) = 3

\* C7: Spawn stores one hash per proposed instruction, and the stored
\* InstructionHashes of a deferred instance are the ones of its spawn in every
\* state, whatever addProof and execProposedTx did.
C7_HashesFixed ==
    /\ pc = "done" /\ cur[1].inst.Type = SpawnType /\ res[1].err = NoErr
          => /\ Len(res[1].sc) = 1
             /\ Len(res[1].sc[1].Value.v.InstructionHashes)
                   = Len(res[1].sc[1].Value.v.ProposedTransaction.Instructions)
             /\ Len(res[1].sc[1].Value.v.InstructionHashes)
                   = Len(Search(cur[1].inst.Args, "proposedTransaction").buf.v.Instructions)
    /\ \A iid \in DOMAIN hist :
          Live(iid) =>
             /\ Stored(iid).InstructionHashes = hist[iid].hashes
             /\ Len(Stored(iid).InstructionHashes)
                   = Len(Stored(iid).ProposedTransaction.Instructions)
    /\ pc \in {"done", "called"} /\ cur[1].inst.Type = InvokeType
       /\ res[1].err = NoErr
          => StoredAfter(cur[1].inst.InstanceID, res[1].sc).InstructionHashes
                = hist[cur[1].inst.InstanceID].hashes

\* C7 witness: after a successful execution and with proofs collected, an
\* addProof succeeds on an instance of two proposed instructions.
C7_Witness ==
    /\ Returned({"done"}, "addProof")
    /\ res[1].err = NoErr
    /\ hist[cur[1].inst.InstanceID].execs >= 1
    /\ Len(hist[cur[1].inst.InstanceID].hashes) = 2

\* C8: hashDeferred of the stored proposed instruction i, with the proofs
\* collected so far, and of the binding identifier of the spawn is
\* InstructionHashes[i]; an addProof does not change the hash of the
\* instruction it extends.
C8_HashIgnoresSigners ==
    /\ \A iid \in DOMAIN hist :
          Live(iid) =>
             \A i \in 1..Len(Stored(iid).ProposedTransaction.Instructions) :
                hashDeferred(Stored(iid).ProposedTransaction.Instructions[i],
                             hist[iid].binding)
                   = Stored(iid).InstructionHashes[i]
    /\ BodyRan("addProof") /\ res[1].err = NoErr
          => LET iid == cur[1].inst.InstanceID
                 i == GivenIndex + 1
             IN hashDeferred(StoredAfter(iid, res[1].sc).ProposedTransaction.Instructions[i],
                             hist[iid].binding)
                   = hashDeferred(Stored(iid).ProposedTransaction.Instructions[i],
                                  hist[iid].binding)

\* C8 witness: an instance whose two proposed instructions both carry
\* collected proofs, the first one two of them.
C8_Witness ==
    \E iid \in DOMAIN hist :
       /\ Live(iid)
       /\ Len(Stored(iid).ProposedTransaction.Instructions) = 2
       /\ Len(StoredSigners(iid, 1)) = 2
       /\ Len(StoredSigners(iid, 2)) >= 1

\* the addProof being handled has one of the argument errors
AddProofArgsBad ==
    \/ Search(cur[1].inst.Args, "index").isNil
    \/ /\ IndexGiven
       /\ GivenIndex >= Len(Stored(cur[1].inst.InstanceID).ProposedTransaction.Instructions)
    \/ Search(cur[1].inst.Args, "identity").isNil
    \/ ~IdentityGiven
    \/ ~SignatureGiven

\* C9: the addProof body returns an error and no state change when the index
\* is missing or not below the number of proposed instructions, the identity
\* is missing or undecodable, or the signature is missing.
C9_AddProofArgs ==
    BodyRan("addProof") /\ AddProofArgsBad
       => /\ res[1].err # NoErr
          /\ res[1].sc = <<>>
          /\ Apply(trie, res[1].sc) = trie

\* C9 witness: a direct call of the body with an index equal to the number
\* of proposed instructions, and identity and signature well-formed.
C9_Witness ==
    /\ Returned({"called"}, "addProof")
    /\ IndexGiven /\ IdentityGiven /\ SignatureGiven
    /\ GivenIndex = Len(Stored(cur[1].inst.InstanceID).ProposedTransaction.Instructions)
    /\ GivenIndex > 0
    /\ res[1].err = ErrIndexRange
    /\ res[1].sc = <<>>

\* C10: a successful addProof at index i returns exactly one Update of the
\* deferred instance; its data is the stored data with the identity and the
\* signature appended at the end of the signers of instruction i, and
\* nothing else changed.
C10_AddProofFrame ==
    BodyRan("addProof") /\ res[1].err = NoErr
       => LET iid == cur[1].inst.InstanceID
              old == Stored(iid)
              i == GivenIndex + 1
              oldI == old.ProposedTransaction.Instructions[i]
              new == res[1].sc[1].Value.v
              newI == new.ProposedTransaction.Instructions[i]
          IN /\ Len(res[1].sc) = 1
             /\ res[1].sc[1].Action = "Update"
             /\ res[1].sc[1].InstanceID = iid
             /\ res[1].sc[1].ContractID = ContractDeferredID
             /\ res[1].sc[1].DarcID = trie[iid].DarcID
             /\ res[1].sc[1].Value.pb = "deferredData"
             /\ newI.SignerIdentities = Append(oldI.SignerIdentities, GivenIdentity)
             /\ newI.Signatures = Append(oldI.Signatures, GivenSignature)
             /\ [newI EXCEPT !.SignerIdentities = <<>>, !.Signatures = <<>>]
                   = [oldI EXCEPT !.SignerIdentities = <<>>, !.Signatures = <<>>]
             /\ Len(new.ProposedTransaction.Instructions)
                   = Len(old.ProposedTransaction.Instructions)
             /\ \A j \in 1..Len(old.ProposedTransaction.Instructions) :
                   j # i => new.ProposedTransaction.Instructions[j]
                               = old.ProposedTransaction.Instructions[j]
             /\ new.ExpireBlockIndex = old.ExpireBlockIndex
             /\ new.InstructionHashes = old.InstructionHashes
             /\ new.NumExecution = old.NumExecution
             /\ new.ExecResult = old.ExecResult

\* C10 witness: a second proof is appended to the second proposed
\* instruction while the first one holds a proof too.
C10_Witness ==
    /\ Returned({"done"}, "addProof")
    /\ res[1].err = NoErr
    /\ GivenIndex = 1
    /\ Len(StoredSigners(cur[1].inst.InstanceID, 2)) = 1
    /\ Len(StoredSigners(cur[1].inst.InstanceID, 1)) >= 1
    /\ Len(StoredAfter(cur[1].inst.InstanceID, res[1].sc)
              .ProposedTransaction.Instructions[2].Signatures) = 2

\* the ledger handled a Spawn of the deferred contract
SpawnDone == pc = "done" /\ cur[1].inst.Type = SpawnType

\* C11: a Spawn that succeeds returns exactly one Create whose instance id is
\* derived from the Spawn instruction, whose contract id is "deferred", whose
\* darc id is the one of the instance the Spawn was sent to, and whose data
\* holds the decoded proposed transaction, the value of the expireBlockIndex
\* argument, one hash per proposed instruction, an empty ExecResult, and
\* NumExecution = the value of the argument, or 1 when it is absent or empty.
C11_SpawnEffect ==
    SpawnDone /\ res[1].err = NoErr
       => LET inst == cur[1].inst
              sc == res[1].sc[1]
              data == sc.Value.v
              num == Search(inst.Args, "NumExecution")
          IN /\ Len(res[1].sc) = 1
             /\ sc.Action = "Create"
             /\ sc.InstanceID = DeriveID(inst)
             /\ sc.ContractID = "deferred"
             /\ sc.DarcID = trie[inst.InstanceID].DarcID
             /\ sc.Value.pb = "deferredData"
             /\ data.ProposedTransaction
                   = Search(inst.Args, "proposedTransaction").buf.v
             /\ FormatUint(data.ExpireBlockIndex)
                   = Search(inst.Args, "expireBlockIndex").buf
             /\ Len(data.InstructionHashes)
                   = Len(data.ProposedTransaction.Instructions)
             /\ data.ExecResult = <<>>
             /\ IF num.isNil \/ num.buf = <<>>
                THEN data.NumExecution = 1
                ELSE FormatUint(data.NumExecution) = num.buf

\* C11 witness: a Spawn whose NumExecution argument is present and empty
\* succeeds with NumExecution = 1.
C11_Witness ==
    /\ SpawnDone
    /\ res[1].err = NoErr
    /\ ~Search(cur[1].inst.Args, "NumExecution").isNil
    /\ Search(cur[1].inst.Args, "NumExecution").buf = <<>>
    /\ res[1].sc[1].Value.v.NumExecution = 1

\* s is no unsigned decimal number
NotUint(s) == s = <<>> \/ \E i \in 1..Len(s) : s[i] \notin 48..57

\* the Spawn being handled has an argument that cannot be decoded or parsed
SpawnArgsBad ==
    LET tx == Search(cur[1].inst.Args, "proposedTransaction")
        expire == Search(cur[1].inst.Args, "expireBlockIndex")
        num == Search(cur[1].inst.Args, "NumExecution")
    IN \/ ~tx.isNil /\ ~DecodeOk(tx.buf, "ClientTransaction")
       \/ NotUint(expire.buf)
       \/ num.buf # <<>> /\ NotUint(num.buf)

\* C12: a Spawn whose proposedTransaction does not decode, whose
\* expireBlockIndex is missing or no unsigned decimal number, or whose
\* non-empty NumExecution is no unsigned decimal number returns an error (one
\* of the three errors of the argument checks when the instruction was
\* authorized) and no state change.
C12_SpawnFailure ==
    SpawnDone /\ SpawnArgsBad
       => /\ res[1].err # NoErr
          /\ res[1].sc = <<>>
          /\ Apply(trie, res[1].sc) = trie
          /\ cur[1].basic = NoErr
                => res[1].err \in {ErrDecodeTx, ErrExpireParse, ErrNumExecParse}

\* C12 witness: the proposed transaction and the expiry are well-formed and
\* the Spawn fails on its NumExecution argument.
C12_Witness ==
    /\ SpawnDone
    /\ cur[1].basic = NoErr
    /\ res[1].err = ErrNumExecParse
    /\ res[1].sc = <<>>

\* C13: once the stored NumExecution of a deferred instance is 0, every step
\* leaves its stored data as it is or deletes the instance, and every Invoke
\* on it that the ledger handles is rejected by VerifyInstruction without a
\* state change.
C13_TerminalInert ==
    [][\A iid \in DOMAIN hist :
          ~hist[iid].deleted /\ Stored(iid).NumExecution = 0
             => /\ hist'[iid].deleted \/ Contract(trie', iid).c = Stored(iid)
                /\ pc' \in {"verified", "done"}
                   /\ cur'[1].inst.Type = InvokeType
                   /\ cur'[1].inst.InstanceID = iid
                      => /\ pc' = "done"
                         /\ res'[1].err # NoErr
                         /\ res'[1].sc = <<>>]_vars

\* C13 witness: an instance spawned with NumExecution >= 1 was executed down
\* to 0 and an authorized addProof on it is rejected.
C13_Witness ==
    /\ Returned({"done"}, "addProof")
    /\ cur[1].basic = NoErr
    /\ hist[cur[1].inst.InstanceID].n >= 1
    /\ Stored(cur[1].inst.InstanceID).NumExecution = 0
    /\ res[1].err = ErrMaxExecutions

\* C14: the stored ExecResult is empty as long as no execProposedTx
\* succeeded, and after every successful execProposedTx, the first one or a
\* later one, it has one entry per proposed instruction.
C14_ExecResultShape ==
    /\ \A iid \in DOMAIN hist :
          Live(iid) =>
             /\ hist[iid].execs = 0 => Stored(iid).ExecResult = <<>>
             /\ hist[iid].execs >= 1
                   => Len(Stored(iid).ExecResult)
                         = Len(Stored(iid).ProposedTransaction.Instructions)
    /\ Returned({"done"}, "execProposedTx") /\ res[1].err = NoErr
          => Len(StoredAfter(cur[1].inst.InstanceID, res[1].sc).ExecResult)
                = Len(Stored(cur[1].inst.InstanceID).ProposedTransaction.Instructions)
    /\ pc = "done" /\ cur[1].inst.Type = InvokeType /\ res[1].err = NoErr
       /\ cur[1].inst.Command # "execProposedTx"
          => StoredAfter(cur[1].inst.InstanceID, res[1].sc).ExecResult
                = Stored(cur[1].inst.InstanceID).ExecResult

\* C14 witness: a second execution succeeds on an instance whose ExecResult
\* holds the result of the first one.
C14_Witness ==
    /\ Returned({"done"}, "execProposedTx")
    /\ res[1].err = NoErr
    /\ hist[cur[1].inst.InstanceID].execs = 1
    /\ Stored(cur[1].inst.InstanceID).ExecResult # <<>>

\* the ledger handled a Delete of the deferred instance
DeleteDone == pc = "done" /\ cur[1].inst.Type = DeleteType

\* C15: an authorized Delete succeeds whatever NumExecution and the index
\* are, and a Delete that succeeds returns exactly one Remove, of the deferred
\* instance itself: applying it takes that instance out of the state and
\* leaves every other instance as it was.
C15_Delete ==
    DeleteDone
       => LET iid == cur[1].inst.InstanceID
          IN /\ cur[1].basic = NoErr => res[1].err = NoErr
             /\ res[1].err = NoErr
                   => /\ Len(res[1].sc) = 1
                      /\ res[1].sc[1].Action = "Remove"
                      /\ res[1].sc[1].InstanceID = iid
                      /\ res[1].sc[1].ContractID = ContractDeferredID
                      /\ res[1].sc[1].DarcID = trie[iid].DarcID
                      /\ Apply(trie, res[1].sc)
                            = [j \in DOMAIN trie \ {iid} |-> trie[j]]

\* C15 witness: an instance with NumExecution = 0, past its expiry and with
\* an executed transaction, is deleted.
C15_Witness ==
    /\ DeleteDone
    /\ res[1].err = NoErr
    /\ Stored(cur[1].inst.InstanceID).NumExecution = 0
    /\ index > Stored(cur[1].inst.InstanceID).ExpireBlockIndex
    /\ hist[cur[1].inst.InstanceID].execs >= 1

\* the entry the log of registrations gives for name: the constructor of the
\* most recent registration of name, or nothing
Expected(log, name) ==
    IF \E i \in 1..Len(log) : log[i].contractName = name
    THEN LET last == CHOOSE i \in 1..Len(log) :
                        /\ log[i].contractName = name
                        /\ \A j \in (i + 1)..Len(log) : log[j].contractName # name
         IN [fn |-> log[last].contractFn, exist |-> TRUE]
    ELSE [fn |-> "", exist |-> FALSE]

\* what the lookup of goroutine t returned
Result(t) == [fn |-> thr[t].fn, exist |-> thr[t].exist]

\* C16: after every step, a lookup that has read the map holds the
\* constructor of the most recent registration of its name and TRUE, or
\* nothing and FALSE when the name was never registered, and so does the map
\* for every name; a name that is in the map stays in it; the map changes
\* only by the write of a registration, and then only at the registered
\* name; the steps of a lookup leave the map as it is.
C16_LastWriterWins ==
    [][/\ \A t \in Threads :
             thr'[t].pc = "unlock" /\ thr'[t].op = "lookup"
                => [fn |-> thr'[t].fn, exist |-> thr'[t].exist]
                      = Expected(regLog', thr'[t].contractName)
       /\ \A n \in RegNames :
             /\ GetContractConstructor(registry', n) = Expected(regLog', n)
             /\ n \in DOMAIN registry => n \in DOMAIN registry'
       /\ (\E n \in RegNames : GetContractConstructor(registry', n)
                                  # GetContractConstructor(registry, n))
             => \E t \in Threads :
                   /\ thr[t].pc = "inmap" /\ thr[t].op = "register"
                   /\ thr'[t].pc = "unlock"
                   /\ \A n \in RegNames \ {thr[t].contractName} :
                         GetContractConstructor(registry', n)
                            = GetContractConstructor(registry, n)
       /\ (\E t \in Threads : thr[t].op = "lookup" /\ thr'[t] # thr[t])
             => \A n \in RegNames :
                   GetContractConstructor(registry', n)
                      = GetContractConstructor(registry, n)]_vars

\* C16 witness: a lookup returns the constructor of the second registration
\* of its name, which replaced another constructor.
C16_Witness ==
    \E t \in Threads :
       /\ thr[t].pc = "unlock" /\ thr[t].op = "lookup"
       /\ Len(regLog) = 2
       /\ regLog[1].contractName = thr[t].contractName
       /\ regLog[2].contractName = thr[t].contractName
       /\ regLog[1].contractFn # regLog[2].contractFn
       /\ thr[t].exist
       /\ thr[t].fn = regLog[2].contractFn

\* the map after the registrations of log, made one after the other
RECURSIVE Replay(_)
Replay(log) ==
    IF log = <<>> THEN <<>>
    ELSE RegistryPut(Replay(SubSeq(log, 1, Len(log) - 1)),
                     log[Len(log)].contractName, log[Len(log)].contractFn)

\* C17: a registration and another call are never inside the map at the
\* same time and no access to the map races; a lookup that has read the map
\* holds the entry as it was after some number of the registrations, between
\* those written when it was called and those written now, never a torn
\* value; and the map is the one that the registrations give when they are
\* made one after the other in the order of their writes.
C17_MutualExclusion ==
    /\ \A t, u \in Threads :
          t # u /\ thr[t].pc = "inmap" /\ thr[u].pc = "inmap"
             => thr[t].op = "lookup" /\ thr[u].op = "lookup"
    /\ \A t \in Threads : ~thr[t].raced
    /\ \A t \in Threads :
          thr[t].pc = "unlock" /\ thr[t].op = "lookup"
             => /\ thr[t].fn # Torn
                /\ \E k \in thr[t].lo..Len(regLog) :
                      Result(t) = Expected(SubSeq(regLog, 1, k), thr[t].contractName)
    /\ \A n \in RegNames :
          GetContractConstructor(registry, n)
             = GetContractConstructor(Replay(regLog), n)

\* C17 witness: a lookup returns a constructor that was registered after the
\* lookup was called, while a registration waits for the mutex.
C17_Witness ==
    \E t, u \in Threads :
       /\ thr[t].pc = "unlock" /\ thr[t].op = "lookup"
       /\ thr[t].lo < Len(regLog)
       /\ thr[t].exist
       /\ Expected(SubSeq(regLog, 1, thr[t].lo), thr[t].contractName) # Result(t)
       /\ thr[u].pc = "lock" /\ thr[u].op = "register"

\* the goroutines that hold the mutex
Holders == { t \in Threads : thr[t].pc \in {"access", "inmap", "unlock"} }

\* C18: every call of RegisterContract and of GetContractConstructor
\* returns; the mutex is held exactly while one goroutine is between its
\* Lock and its return, so it is free when no call is under way; and as long
\* as a call is under way some goroutine can take a step.
C18_Progress ==
    /\ \A t \in Threads : (thr[t].pc # "idle") ~> (thr[t].pc = "idle")
    /\ [](/\ Cardinality(Holders) <= 1
          /\ locked <=> Holders # {}
          /\ (\E t \in Threads : thr[t].pc # "idle")
                => \/ Holders # {}
                   \/ \E t \in Threads : thr[t].pc = "lock" /\ ~locked)

\* C18 witness: one goroutine is about to return with the mutex held and
\* every other goroutine waits for the mutex.
C18_Witness ==
    \E t \in Threads :
       /\ thr[t].pc = "unlock"
       /\ locked
       /\ \A u \in Threads \ {t} : thr[u].pc = "lock"

\* C20: in the data that a successful Spawn stores, the hash of every
\* proposed instruction is hashDeferred of that instruction and of the
\* identifier of the instance that the returned Create creates.
C20_BindingIsNewInstance ==
    SpawnDone /\ res[1].err = NoErr
       => LET created == res[1].sc[1].InstanceID
              data == res[1].sc[1].Value.v
          IN \A i \in 1..Len(data.ProposedTransaction.Instructions) :
                data.InstructionHashes[i]
                   = hashDeferred(data.ProposedTransaction.Instructions[i],
                                  Slice(created))

\* two instructions with the same content, whatever their signers
SameInstruction(a, b) ==
    [a EXCEPT !.SignerIdentities = <<>>, !.Signatures = <<>>]
       = [b EXCEPT !.SignerIdentities = <<>>, !.Signatures = <<>>]

SameHashedContent(a, b) ==
    SameInstruction([a EXCEPT !.Command = ""], [b EXCEPT !.Command = ""])

\* C22: for one binding identifier, two instructions that differ
\* in target instance id, kind, contract id, Invoke command or arguments
\* feed different byte sequences into the hash function.
C22_Injective ==
    pc = "hashed" /\ ~SameInstruction(cur[1].a, cur[1].b)
       => res[1].sha256 # res[2].sha256

\* two Invoke instructions that differ in their command only have been hashed
C22_Witness ==
    /\ pc = "hashed"
    /\ cur[1].a.Type = InvokeType
    /\ cur[1].a.Command # cur[1].b.Command
    /\ cur[1].a.Args # <<>>
    /\ SameHashedContent(cur[1].a, cur[1].b)
    /\ res[1] = res[2]


\* the ledger handled an addProof on a live deferred instance whose index is
\* not below the number of proposed instructions
IndexOutOfRange ==
    /\ Returned({"done"}, "addProof")
    /\ Live(cur[1].inst.InstanceID)
    /\ IndexGiven
    /\ GivenIndex >= Len(Stored(cur[1].inst.InstanceID).ProposedTransaction.Instructions)

\* C23: for an addProof whose index is at least the number of proposed
\* instructions, VerifyInstruction returns an error value (it neither accepts
\* the instruction nor aborts on an out-of-bounds access), and the
\* instruction changes nothing.
C23_IndexRange ==
    IndexOutOfRange
       => /\ VerifyInstruction(Handler(cur[1].inst), rst, cur[1].inst,
                               cur[1].basic) \notin {NoErr, Panic}
          /\ res[1].err \notin {NoErr, Panic}
          /\ res[1].sc = <<>>

\* C23, the abort: the guards of every Invoke and the identity argument are
\* fine, and VerifyInstruction indexes the proposed instructions out of
\* bounds
C23_OutOfBounds ==
    /\ IndexOutOfRange
    /\ GuardsPass
    /\ IdentityGiven
    /\ res[1].err = Panic


\* C24: every proposed instruction stored in a live deferred instance has as
\* many signer identities as signatures.
C24_SignerListsAligned ==
    \A iid \in DOMAIN hist :
       Live(iid) =>
          \A i \in 1..Len(Stored(iid).ProposedTransaction.Instructions) :
             Len(Stored(iid).ProposedTransaction.Instructions[i].SignerIdentities)
                = Len(Stored(iid).ProposedTransaction.Instructions[i].Signatures)

\* C24, the misaligned lists: a proof was added to a proposed instruction
\* that was spawned with a signer identity and no signature
C24_Misaligned ==
    \E iid \in DOMAIN hist :
       /\ Live(iid)
       /\ \E i \in 1..Len(Stored(iid).ProposedTransaction.Instructions) :
             /\ Len(StoredSigners(iid, i)) = 2
             /\ Len(Stored(iid).ProposedTransaction.Instructions[i].Signatures) = 1


\* the calls of the kinds Spawn, Invoke and Delete of a target contract
Dispatches == {SpawnType, InvokeType, DeleteType}

\* C25: execProposedTx handles the proposed instructions in stored order;
\* VerifyDeferredInstruction is called for instruction i with instruction i
\* and the hash stored for i at spawn time; the Spawn, Invoke or Delete of the
\* target is the one of the instruction's kind and is called only after that
\* verification succeeded; no call for instruction i+1 is made before the
\* dispatch of instruction i succeeded; the invocation succeeds exactly when
\* every proposed instruction was dispatched with success.
C25_Ordering ==
    BodyRan("execProposedTx") /\ Live(cur[1].inst.InstanceID)
       => LET iid == cur[1].inst.InstanceID
              c == Stored(iid)
              n == Len(c.ProposedTransaction.Instructions)
              t == ExecLoopCalls(c, registry, rst, 1)
          IN /\ \A k \in 1..Len(t) :
                   /\ t[k].i \in 1..n
                   /\ \A j \in 1..(k - 1) : t[j].i <= t[k].i
                   /\ t[k].call = "VerifyDeferredInstruction"
                         => /\ t[k].instr = c.ProposedTransaction.Instructions[t[k].i]
                            /\ t[k].hash = hist[iid].hashes[t[k].i]
                   /\ t[k].call \in Dispatches
                         => /\ t[k].call = c.ProposedTransaction.Instructions[t[k].i].Type
                            /\ t[k].instr = c.ProposedTransaction.Instructions[t[k].i]
                            /\ \E j \in 1..(k - 1) :
                                  /\ t[j].call = "VerifyDeferredInstruction"
                                  /\ t[j].i = t[k].i
                                  /\ t[j].err = NoErr
                   /\ t[k].i > 1
                         => \E j \in 1..(k - 1) :
                               /\ t[j].call \in Dispatches
                               /\ t[j].i = t[k].i - 1
                               /\ t[j].err = NoErr
             /\ res[1].err = NoErr
                   <=> \A i \in 1..n :
                          \E k \in 1..Len(t) :
                             /\ t[k].call \in Dispatches
                             /\ t[k].i = i
                             /\ t[k].err = NoErr

\* C25 witness: an execProposedTx of two proposed instructions of different
\* kinds succeeded
C25_Witness ==
    /\ BodyRan("execProposedTx")
    /\ Live(cur[1].inst.InstanceID)
    /\ res[1].err = NoErr
    /\ Len(Stored(cur[1].inst.InstanceID).ProposedTransaction.Instructions) = 2
    /\ Stored(cur[1].inst.InstanceID).ProposedTransaction.Instructions[1].Type
          # Stored(cur[1].inst.InstanceID).ProposedTransaction.Instructions[2].Type
    /\ Len(ExecLoopCalls(Stored(cur[1].inst.InstanceID), registry, rst, 1)) = 8


\* C26: execProposedTx looks up the constructor under the contract id of the
\* proposed instruction itself: when the first instruction that does not
\* succeed names a contract id that is not registered, the invocation returns
\* the lookup error and no state change; the lookup error is returned only
\* for an unregistered contract id of a proposed instruction, and the
\* constructor error only when the constructor registered under the
\* instruction's own contract id refuses it.
C26_TargetResolution ==
    BodyRan("execProposedTx") /\ Live(cur[1].inst.InstanceID)
       => LET instrs == Stored(cur[1].inst.InstanceID).ProposedTransaction.Instructions
          IN /\ (\E i \in 1..Len(instrs) :
                    /\ instrs[i].ContractID \notin DOMAIN registry
                    /\ \A j \in 1..(i - 1) : ~InstructionFails(j))
                   => /\ res[1].err = ErrNoRootFunction
                      /\ res[1].sc = <<>>
                      /\ Apply(trie, res[1].sc) = trie
             /\ res[1].err = ErrNoRootFunction
                   => \E i \in 1..Len(instrs) :
                         instrs[i].ContractID \notin DOMAIN registry
             /\ res[1].err = ErrRootContract
                   => \E i \in 1..Len(instrs) :
                         /\ instrs[i].ContractID \in DOMAIN registry
                         /\ ~Construct(registry[instrs[i].ContractID],
                                       Encode("Instruction", instrs[i])).ok

\* C26 witness: the deferred contract is registered, the contract of the
\* second proposed instruction is not, and execProposedTx fails at its lookup
\* after the first instruction succeeded.
C26_Witness ==
    /\ BodyRan("execProposedTx")
    /\ Live(cur[1].inst.InstanceID)
    /\ ContractDeferredID \in DOMAIN registry
    /\ Len(Stored(cur[1].inst.InstanceID).ProposedTransaction.Instructions) = 2
    /\ Stored(cur[1].inst.InstanceID).ProposedTransaction.Instructions[2].ContractID
          \notin DOMAIN registry
    /\ ~InstructionFails(1)
    /\ res[1].err = ErrNoRootFunction
    /\ res[1].sc = <<>>


\* the effects of the nested calls for the proposed instructions i, i+1, ...
\* of the deferred data c, in that order
RECURSIVE NestedEffects(_, _)
NestedEffects(c, i) ==
    IF i > Len(c.ProposedTransaction.Instructions) THEN <<>>
    ELSE ExecInstruction(c, registry, rst, i).sc \o NestedEffects(c, i + 1)

\* C27: a successful execProposedTx returns the effects of the nested calls,
\* concatenated in the order of the stored instructions, followed by one
\* Update of the deferred instance that carries the new data, and nothing
\* else.
C27_ExecEffects ==
    BodyRan("execProposedTx") /\ Live(cur[1].inst.InstanceID)
    /\ res[1].err = NoErr
       => LET iid == cur[1].inst.InstanceID
              c == Stored(iid)
              nested == NestedEffects(c, 1)
              last == res[1].sc[Len(res[1].sc)]
          IN /\ Len(res[1].sc) = Len(nested) + 1
             /\ SubSeq(res[1].sc, 1, Len(nested)) = nested
             /\ last.Action = "Update"
             /\ last.InstanceID = iid
             /\ last.ContractID = ContractDeferredID
             /\ last.DarcID = trie[iid].DarcID
             /\ DecodeOk(last.Value, "deferredData")
             /\ last.Value.v.NumExecution = Uint64Dec(c.NumExecution)
             /\ last.Value.v.ProposedTransaction = c.ProposedTransaction
             /\ last.Value.v.InstructionHashes = c.InstructionHashes
             /\ last.Value.v.ExpireBlockIndex = c.ExpireBlockIndex
             /\ \A k \in 1..Len(nested) : nested[k].InstanceID # iid

\* C27 witness: a successful execProposedTx whose two proposed instructions
\* produce different effects
C27_Witness ==
    /\ BodyRan("execProposedTx")
    /\ Live(cur[1].inst.InstanceID)
    /\ res[1].err = NoErr
    /\ Len(res[1].sc) = 3
    /\ res[1].sc[1] # res[1].sc[2]
    /\ res[1].sc[1].Action # "Update"


\* C28: the deferred contract counts no proofs: an authorized execProposedTx
\* on an instance with NumExecution >= 1 at an index not above
\* ExpireBlockIndex passes VerifyInstruction whatever proofs are stored, and
\* succeeds when the verification and the execution of every proposed
\* instruction by its target contract succeed.
C28_NoThreshold ==
    Returned({"done"}, "execProposedTx") /\ Live(cur[1].inst.InstanceID)
    /\ GuardsPass
       => /\ VerifyInstruction(Handler(cur[1].inst), rst, cur[1].inst,
                               cur[1].basic) = NoErr
          /\ (\A i \in 1..Len(Stored(cur[1].inst.InstanceID).ProposedTransaction.Instructions) :
                 ~InstructionFails(i))
                => res[1].err = NoErr

\* C28 witness: no addProof was accepted since the spawn, and the
\* execProposedTx of a proposed instruction succeeds
C28_Witness ==
    /\ Returned({"done"}, "execProposedTx")
    /\ Live(cur[1].inst.InstanceID)
    /\ GuardsPass
    /\ Stored(cur[1].inst.InstanceID).ProposedTransaction = hist[cur[1].inst.InstanceID].tx
    /\ Len(Stored(cur[1].inst.InstanceID).ProposedTransaction.Instructions) >= 1
    /\ res[1].err = NoErr


LookupHolders == { t \in Holders : thr[t].op = "lookup" }

\* C30 as stated: lookups do not exclude each other: a lookup that asks for
\* the guarded section while only lookups are inside it can enter, so that
\* two lookups can be inside at the same time.
C30_LookupsShare ==
    \A t \in Threads :
       /\ thr[t].pc = "lock"
       /\ thr[t].op = "lookup"
       /\ Holders = LookupHolders
          => ENABLED MutexLock(t)

\* C30, amended: a lookup takes the same mutex as a registration, so lookups
\* exclude each other too: at most one lookup is inside the guarded section,
\* and a call that asks for it while a lookup is inside has to wait.
C30_LookupsExclusive ==
    /\ Cardinality(LookupHolders) <= 1
    /\ LookupHolders # {} => Holders = LookupHolders /\ locked
    /\ \A t \in Threads :
          thr[t].pc = "lock" /\ LookupHolders # {} => ~ENABLED MutexLock(t)

\* C30 witness: a lookup waits for the mutex while another lookup reads the
\* map and no registration is under way
C30_Witness ==
    \E t, u \in Threads :
       /\ thr[t].pc = "lock" /\ thr[t].op = "lookup"
       /\ thr[u].pc = "inmap" /\ thr[u].op = "lookup"
       /\ \A v \in Threads : thr[v].op # "register"


\* the state view that the proposed instruction i of the deferred data c
\* would get if the effects of the instructions before it were applied
ViewAfterEarlier(c, i) ==
    [rst EXCEPT !.trie =
        Apply(trie, SubSeq(NestedEffects(c, 1), 1,
                           Len(NestedEffects(c, 1)) - Len(NestedEffects(c, i))))]

\* C31: within one execProposedTx every proposed instruction is verified and
\* executed against the state view given to the invocation: the invocation
\* succeeds exactly when every proposed instruction succeeds against that
\* view, and the effects it returns are the ones every instruction produces
\* against that view, whatever the earlier instructions of the batch did.
C31_SameView ==
    BodyRan("execProposedTx") /\ Live(cur[1].inst.InstanceID)
       => LET c == Stored(cur[1].inst.InstanceID)
              n == Len(c.ProposedTransaction.Instructions)
          IN /\ res[1].err = NoErr
                   <=> \A i \in 1..n :
                          ExecInstruction(c, registry, rst, i).err = NoErr
             /\ res[1].err = NoErr
                   => \A i \in 1..n :
                         LET before == Len(NestedEffects(c, 1))
                                          - Len(NestedEffects(c, i))
                             mine == ExecInstruction(c, registry, rst, i).sc
                         IN SubSeq(res[1].sc, before + 1, before + Len(mine))
                               = mine

\* C31 witness: an execProposedTx succeeds although its second proposed
\* instruction would fail on the state left by the first one
C31_Witness ==
    /\ BodyRan("execProposedTx")
    /\ Live(cur[1].inst.InstanceID)
    /\ res[1].err = NoErr
    /\ Len(Stored(cur[1].inst.InstanceID).ProposedTransaction.Instructions) = 2
    /\ ExecInstruction(Stored(cur[1].inst.InstanceID), registry,
                       ViewAfterEarlier(Stored(cur[1].inst.InstanceID), 2),
                       2).err # NoErr


\* C32: a successful execProposedTx changes only ExecResult and NumExecution
\* of the stored data: the proposed instructions with their signer identities
\* and signatures, ExpireBlockIndex and InstructionHashes are as before, and
\* it changes no other field of the instance; so the proofs stored before an
\* execution are the ones the next execution is verified with.
C32_ExecFrame ==
    BodyRan("execProposedTx") /\ Live(cur[1].inst.InstanceID)
    /\ res[1].err = NoErr
       => LET iid == cur[1].inst.InstanceID
              before == Stored(iid)
              after == StoredAfter(iid, res[1].sc)
          IN /\ after.ProposedTransaction = before.ProposedTransaction
             /\ after.ExpireBlockIndex = before.ExpireBlockIndex
             /\ after.InstructionHashes = before.InstructionHashes
             /\ after = [before EXCEPT !.ExecResult = after.ExecResult,
                                       !.NumExecution = after.NumExecution]
             /\ Apply(trie, res[1].sc)[iid].ContractID = trie[iid].ContractID
             /\ Apply(trie, res[1].sc)[iid].DarcID = trie[iid].DarcID

\* C32 witness: a second execution succeeds with the proof that was added
\* before the first one
C32_Witness ==
    /\ Returned({"done"}, "execProposedTx")
    /\ Live(cur[1].inst.InstanceID)
    /\ res[1].err = NoErr
    /\ hist[cur[1].inst.InstanceID].execs = 1
    /\ Len(hist[cur[1].inst.InstanceID].tx.Instructions) >= 1
    /\ hist[cur[1].inst.InstanceID].tx.Instructions[1].SignerIdentities = <<>>
    /\ StoredSigners(cur[1].inst.InstanceID, 1) = <<Owner>>
    /\ StoredAfter(cur[1].inst.InstanceID, res[1].sc)
          .ProposedTransaction.Instructions[1].SignerIdentities = <<Owner>>


\* the ledger handled an authorized execProposedTx on a live instance with no
\* proposed instruction, NumExecution >= 1 and an index not above the expiry
EmptyExecution ==
    /\ Returned({"done"}, "execProposedTx")
    /\ Live(cur[1].inst.InstanceID)
    /\ GuardsPass
    /\ Stored(cur[1].inst.InstanceID).ProposedTransaction.Instructions = <<>>

\* C33: execProposedTx on an instance whose proposed transaction has no
\* instruction succeeds when NumExecution >= 1 and the index is not above
\* ExpireBlockIndex: it returns one state change, the Update of the deferred
\* instance, with an empty ExecResult and NumExecution one less.
C33_EmptyTransaction ==
    EmptyExecution
       => /\ res[1].err = NoErr
          /\ Len(res[1].sc) = 1
          /\ res[1].sc[1].Action = "Update"
          /\ res[1].sc[1].InstanceID = cur[1].inst.InstanceID
          /\ res[1].sc[1].ContractID = ContractDeferredID
          /\ DecodeOk(res[1].sc[1].Value, "deferredData")
          /\ res[1].sc[1].Value.v.ExecResult = <<>>
          /\ res[1].sc[1].Value.v.NumExecution
                = Stored(cur[1].inst.InstanceID).NumExecution - 1

\* C33 witness: the second execution of an empty proposed transaction
C33_Witness ==
    /\ EmptyExecution
    /\ hist[cur[1].inst.InstanceID].execs = 1
    /\ res[1].err = NoErr
    /\ res[1].sc[1].Value.v.NumExecution = 0


\* an Invoke of a live deferred instance with a command that the contract
\* does not know was handled, through the ledger or on a direct call
UnknownCommand ==
    /\ pc \in {"done", "called"}
    /\ cur[1].inst.Type = InvokeType
    /\ cur[1].inst.Command \notin {"addProof", "execProposedTx"}
    /\ Live(cur[1].inst.InstanceID)

\* C34: an Invoke with a command other than addProof and execProposedTx
\* passes VerifyInstruction when the basic check passes, NumExecution >= 1
\* and the index is not above ExpireBlockIndex; the body then returns the
\* error of the default case; and in every case the Invoke returns an error
\* and no state change, so that the stored data stay as they were.
C34_UnknownCommand ==
    UnknownCommand
       => /\ GuardsPass
                => /\ VerifyInstruction(Handler(cur[1].inst), rst, cur[1].inst,
                                        cur[1].basic) = NoErr
                   /\ res[1].err = ErrUnknownCommand
          /\ res[1].err # NoErr
          /\ res[1].sc = <<>>
          /\ StoredAfter(cur[1].inst.InstanceID, res[1].sc)
                = Stored(cur[1].inst.InstanceID)
          /\ Apply(trie, res[1].sc) = trie

\* C34 witness: the ledger let an unknown command through VerifyInstruction
\* and the body refused it
C34_Witness ==
    /\ UnknownCommand
    /\ pc = "done"
    /\ GuardsPass
    /\ res[1].err = ErrUnknownCommand
    /\ Stored(cur[1].inst.InstanceID).ProposedTransaction.Instructions # <<>>


\* the roster stored in the long-term-secret instance, and the one proposed
\* by the reshare being handled
CurrentRoster == trie[LtsIID].Data.v.Roster.List
ProposedRoster == Search(cur[1].inst.Args, "lts_instance_info").buf.v.Roster.List

\* the ledger handled a reshare with a decodable roster
ReshareHandled ==
    /\ pc = "done"
    /\ cur[1].inst.Command = "reshare"
    /\ ~Search(cur[1].inst.Args, "lts_instance_info").isNil
    /\ DecodeOk(Search(cur[1].inst.Args, "lts_instance_info").buf,
                "LtsInstanceInfo")

\* the distinct servers of the current roster that the proposed one lists
DistinctOverlap == Range(CurrentRoster) \cap Range(ProposedRoster)

\* C35: a reshare succeeds only if the proposed roster lists at least
\* n - floor((n-1)/3) distinct servers of the current roster, n being the
\* length of the current roster; a reshare that is refused changes nothing.
C35_ReshareThreshold ==
    ReshareHandled
       => /\ res[1].err = NoErr
                => Cardinality(DistinctOverlap)
                      >= Len(CurrentRoster) - ((Len(CurrentRoster) - 1) \div 3)
          /\ res[1].err # NoErr
                => res[1].sc = <<>> /\ Apply(trie, res[1].sc) = trie

\* C35, the duplicate: a reshare is accepted whose roster lists a single
\* server of the current roster, several times
C35_DuplicatesCounted ==
    /\ ReshareHandled
    /\ res[1].err = NoErr
    /\ Cardinality(Range(CurrentRoster)) = Len(CurrentRoster)
    /\ Len(CurrentRoster) >= 3
    /\ Cardinality(DistinctOverlap) = 1


\* the ledger handled the Spawn of a read instance, with a read argument that
\* names the write instance, sent to a write instance whose cost is above 0
PaidReadSpawn ==
    /\ pc = "done"
    /\ cur[1].inst.Type = SpawnType
    /\ cur[1].inst.ContractID = ContractReadID
    /\ cur[1].inst.InstanceID \in WriteLive(trie)
    /\ WriteHandler(cur[1].inst).Cost.Value > 0

\* the positions of the supplied coins that have the name of the cost
MatchingCoins ==
    { i \in 1..Len(cur[1].coins) :
         cur[1].coins[i].Name = WriteHandler(cur[1].inst).Cost.Name }

\* C36: the Spawn of a read instance from a write instance whose cost is
\* above 0 returns the Create of the read instance only if the cost was
\* subtracted from a supplied coin of the name of the cost; when no supplied
\* coin has that name, or the one that has it holds less than the cost, no
\* read instance is created.
C36_ReadIsPaid ==
    PaidReadSpawn
       => LET cost == WriteHandler(cur[1].inst).Cost
          IN /\ res[1].err = NoErr
                   => \E i \in MatchingCoins :
                         /\ cur[1].coins[i].Value >= cost.Value
                         /\ res[1].cout[i].Value
                               = cur[1].coins[i].Value - cost.Value
             /\ (MatchingCoins = {}
                 \/ \A i \in MatchingCoins : cur[1].coins[i].Value < cost.Value)
                   => /\ res[1].err # NoErr
                      /\ res[1].sc = <<>>
                      /\ Apply(trie, res[1].sc) = trie

\* C36, the free read: the read instance is created although no supplied
\* coin has the name of the cost, and the coins come back as they were given
C36_FreeRead ==
    /\ PaidReadSpawn
    /\ MatchingCoins = {}
    /\ cur[1].coins # <<>>
    /\ res[1].err = NoErr
    /\ Len(res[1].sc) = 1
    /\ res[1].sc[1].Action = "Create"
    /\ res[1].sc[1].ContractID = ContractReadID
    /\ res[1].cout = cur[1].coins
====
